---------------------------- MODULE Spec2Model ----------------------------
(***************************************************************************)
(* A model of knoll (gawashburn/knoll): resolution of the configuration   *)
(* group for the attached displays, the display configuration             *)
(* transactions of the fake and the real backend, and the daemon's        *)
(* reconfiguration worker with its lock, flag, condition variable and     *)
(* counter.                                                                *)
(***************************************************************************)
EXTENDS Integers, Sequences, FiniteSets, TLC

(***************************************************************************)
(* Bounds of the model.                                                    *)
(***************************************************************************)
\* Longest list of configuration groups read from the configuration.
MaxGroups == 3

\* The display UUIDs of the model.
UUIDs == {"A", "B", "C"}

\* Rust's Option: None is the empty tuple, Some(v) the tuple of v.
None == <<>>

Some(v) == <<v>>

\* Most edits one transaction is asked to queue.
MaxEdits == 2

\* Most invocations of the reconfiguration callback by the run loop.
MaxNotifications == 2

\* Most display modes one display offers to select_mode.
MaxModes == 3

\* Most Configs in the ConfigGroup handed to ValidConfigGroup::from.
MaxConfigs == 3

VARIABLES
    \* pipeline_command / the worker's pass: Vec<ValidConfigGroup> from
    \* ConfigReader::groups, the keys of DisplayState::get_displays, the result
    \* of find_most_precise_config_group, and the group handed to
    \* configure_displays.
    vcgs, attached, resolution, chosen_config, ppc,
    \* The display backend: which DisplayState implementation is in use, the
    \* displays of the system (CURRENT_FAKE_DISPLAYS, or the displays the
    \* operating system knows), the snapshot DisplayState::current returned,
    \* the configuration transaction, the Core Graphics configuration session
    \* behind CGDisplayConfigRef, the last call on the transaction with its
    \* result, and the call that closed the transaction.
    backend, displays, display_state, txn, session, last, closed_by,
    \* daemon_command: who holds RECONFIGURE_LOCK, the Boolean it guards,
    \* RECONFIGURE_COUNT, where the worker thread and the main thread are,
    \* the exit_after_first argument, the number of invocations of the
    \* reconfiguration callback so far, and `result` of the worker's last pass.
    mutex, flag, count, wpc, mpc, exit_after_first, notifications, pass_result,
    \* select_mode: the possible_modes of the display, the Config, the result,
    \* and whether select_mode has returned.
    possible_modes, mode_config, select_result, spc,
    \* configure_displays: the selected_modes map, the edits it has still to
    \* issue on cfgtxn, where it is, and what it returned.
    selected_modes, pending, apc, apply_result,
    \* valid_config.rs: the ConfigGroups handed to validate_config_groups,
    \* its result, and whether it has returned.
    input_groups, valid_result, vpc,
    \* pipeline_command run on what it printed before: what each run wrote
    \* to `output`.
    output,
    \* The number of invocations of the reconfiguration callback that had
    \* happened when the worker last took a snapshot with DS::current().
    seen

pipeline_vars == <<vcgs, attached, resolution, chosen_config, ppc>>

txn_vars == <<backend, displays, display_state, txn, session, last, closed_by>>

daemon_vars ==
    <<mutex, flag, count, wpc, mpc, exit_after_first, notifications, pass_result>>

select_vars == <<possible_modes, mode_config, select_result, spc>>

apply_vars == <<selected_modes, pending, apc, apply_result>>

valid_vars == <<input_groups, valid_result, vpc>>

io_vars == <<output, seen>>

ext_vars == <<select_vars, apply_vars, valid_vars, io_vars>>

vars == <<pipeline_vars, txn_vars, daemon_vars, ext_vars>>

(***************************************************************************)
(* config.rs: Config, every optional field unset.                         *)
(***************************************************************************)
DefaultConfig(u) ==
    [uuid |-> u, mirror_of |-> None, enabled |-> None, origin |-> None,
     extents |-> None, scaled |-> None, frequency |-> None,
     color_depth |-> None, rotation |-> None, brightness |-> None]

(***************************************************************************)
(* valid_config.rs: ValidConfigGroup, the set of UUIDs and the map from   *)
(* UUID to Config.                                                         *)
(***************************************************************************)
ValidConfigGroup(S) == [uuids |-> S, configs |-> [u \in S |-> DefaultConfig(u)]]

\* The group of no display: the value of fields that hold no group.
NoGroup == ValidConfigGroup({})

\* ValidConfigGroup::partial_cmp as used by sort(): a precedes-or-equals b.
PrecisionLeq(a, b) ==
    IF a.uuids \subseteq b.uuids /\ b.uuids \subseteq a.uuids THEN TRUE
    ELSE IF b.uuids \subseteq a.uuids THEN TRUE
    ELSE IF a.uuids \subseteq b.uuids THEN FALSE
    ELSE Cardinality(b.uuids) <= Cardinality(a.uuids)

\* What validate_config_groups returns on success: non-empty groups with
\* pairwise distinct UUID sets, sorted by partial_cmp.
ValidatedGroupLists ==
    LET Groups == {ValidConfigGroup(S) : S \in (SUBSET UUIDs) \ {{}}}
        Lists == UNION {[1..n -> Groups] : n \in 1..MaxGroups}
    IN {l \in Lists :
          /\ \A i, j \in 1..Len(l) : i # j => l[i].uuids # l[j].uuids
          /\ \A i, j \in 1..Len(l) : i < j => PrecisionLeq(l[i], l[j])}

(***************************************************************************)
(* displays.rs, fake_displays.rs, real_displays.rs: displays and modes.   *)
(***************************************************************************)
\* BTreeMap order of the UUIDs.
UUIDOrder == <<"A", "B", "C">>

SortedKeys(S) == SelectSeq(UUIDOrder, LAMBDA u : u \in S)

EmptyMap == [u \in {} |-> None]

Restrict(f, S) == [x \in S |-> f[x]]

\* Point, as <<x, y>>: the origin an edit moves a display to (displays
\* start at <<0, 0>>).
Origins == {<<1920, 0>>}

\* Rotation: the angle an edit turns a display to (displays start at 0).
Rotations == {90}

\* FakeDisplayMode / RealDisplayMode: the modes a display offers.
DisplayMode(u, sc, ext) ==
    [uuid |-> u, scaled |-> sc, color_depth |-> 8, frequency |-> 60,
     extents |-> ext]

ModesOf(u) ==
    {DisplayMode(u, FALSE, <<1920, 1080>>), DisplayMode(u, TRUE, <<1280, 720>>)}

\* Brightness in tenths: 5 is 0.5, and 11 (1.1) is out of range.
Brightnesses == {5, 11}

\* FakeDisplay / RealDisplay.
Display(u, on) ==
    [uuid |-> u, mirrored_display |-> None, enabled |-> on,
     origin |-> <<0, 0>>, rotation |-> 0,
     mode |-> DisplayMode(u, FALSE, <<1920, 1080>>), brightness |-> None]

\* The displays the system starts with: A and B, B enabled or disabled.
InitialDisplays ==
    {[u \in {"A", "B"} |-> Display(u, u = "A" \/ on)] : on \in BOOLEAN}

\* A DisplayState::current that reports disabled displays too.
Current_WithDisabled(disp) == disp

\* DisplayState::current: disabled displays are not reported.
Current(disp) == Restrict(disp, {u \in DOMAIN disp : disp[u].enabled})

\* FakeDisplay::apply_edit.
apply_edit(display, edit) ==
    CASE edit.kind = "SetMode" -> [display EXCEPT !.mode = edit.value]
      [] edit.kind = "SetRotation" -> [display EXCEPT !.rotation = edit.value]
      [] edit.kind = "SetOrigin" -> [display EXCEPT !.origin = edit.value]
      [] edit.kind = "SetEnabled" -> [display EXCEPT !.enabled = edit.value]
      [] edit.kind = "SetMirroredDisplay" ->
            [display EXCEPT !.mirrored_display = edit.value]
      [] edit.kind = "SetBrightness" ->
            [display EXCEPT !.brightness = Some(edit.value)]

\* `for edit in edits { display.apply_edit(edit) }`
RECURSIVE apply_edits(_, _)
apply_edits(display, edits) ==
    IF edits = <<>> THEN display
    ELSE apply_edits(apply_edit(display, Head(edits)), Tail(edits))

(***************************************************************************)
(* Results of the calls on a transaction (displays::Error).               *)
(***************************************************************************)
Ok == <<"Ok">>

UnknownUUID(u) == <<"UnknownUUID", u>>

DuplicateConfiguration(u) == <<"DuplicateConfiguration", u>>

InvalidTransactionState == <<"InvalidTransactionState">>

InvalidBrightness == <<"InvalidBrightness">>

Internal == <<"Internal">>

(***************************************************************************)
(* FakeDisplayConfigTransaction and RealDisplayConfigTransaction: the     *)
(* fake keeps edit_map, the real keeps displays (the known UUIDs),        *)
(* rotations and config_ref; both keep dropped.                           *)
(***************************************************************************)
NoTxn ==
    [exists |-> FALSE, dropped |-> FALSE, edit_map |-> EmptyMap,
     displays |-> {}, rotations |-> EmptyMap, config_ref |-> "null"]

\* The Core Graphics configuration session: its state, the edits queued in
\* it, and the calls that were handed a CGDisplayConfigRef.
NoSession == [state |-> "none", queued |-> <<>>, calls |-> <<>>]

NoCall == [op |-> "none", result |-> <<>>]

TxnIdle ==
    /\ backend = "fake"
    /\ displays = EmptyMap
    /\ display_state = EmptyMap
    /\ txn = NoTxn
    /\ session = NoSession
    /\ last = NoCall
    /\ closed_by = "none"

\* The statics of the daemon before daemon_command is called.
DaemonIdle ==
    /\ mutex = "free"
    /\ flag = FALSE
    /\ count = 0
    /\ wpc = "unborn"
    /\ mpc = "idle"
    /\ exit_after_first = FALSE
    /\ notifications = 0
    /\ pass_result = None

\* No call of select_mode, configure_displays or validate_config_groups.
SelectIdle ==
    /\ possible_modes = <<>>
    /\ mode_config = None
    /\ select_result = None
    /\ spc = "idle"

ApplyIdle ==
    /\ selected_modes = EmptyMap
    /\ pending = <<>>
    /\ apc = "idle"
    /\ apply_result = None

ValidIdle ==
    /\ input_groups = <<>>
    /\ valid_result = None
    /\ vpc = "idle"

\* Nothing was written to the output and no snapshot was taken by a worker.
IoIdle == output = <<>> /\ seen = 0

ExtIdle == SelectIdle /\ ApplyIdle /\ ValidIdle /\ IoIdle

(***************************************************************************)
(* knoll.rs: find_most_precise_config_group.                              *)
(***************************************************************************)
\* The condition under which the loop keeps a group (lines 489-491), and
\* three ways of getting it wrong. Without the comparison with best_len:
GroupAccepted_NoBestLen(valid_group, in_displays, best_len) ==
    /\ Cardinality(valid_group.uuids) <= Cardinality(in_displays)
    /\ \A c \in valid_group.uuids : c \in in_displays

\* `best_len < group_len` in place of `best_len <= group_len`.
GroupAccepted_StrictBest(valid_group, in_displays, best_len) ==
    /\ Cardinality(valid_group.uuids) <= Cardinality(in_displays)
    /\ best_len < Cardinality(valid_group.uuids)
    /\ \A c \in valid_group.uuids : c \in in_displays

\* Without the test that every UUID of the group is attached.
GroupAccepted_NoContains(valid_group, in_displays, best_len) ==
    /\ Cardinality(valid_group.uuids) <= Cardinality(in_displays)
    /\ best_len <= Cardinality(valid_group.uuids)

GroupAccepted(valid_group, in_displays, best_len) ==
    /\ Cardinality(valid_group.uuids) <= Cardinality(in_displays)
    /\ best_len <= Cardinality(valid_group.uuids)
    /\ \A c \in valid_group.uuids : c \in in_displays

\* The for loop over vcgs: acc holds `matching` and `best_len`.
RECURSIVE MatchingLoop(_, _, _, _)
MatchingLoop(groups, in_displays, i, acc) ==
    IF i > Len(groups) THEN acc
    ELSE LET valid_group == groups[i]
             group_len == Cardinality(valid_group.uuids)
         IN IF GroupAccepted(valid_group, in_displays, acc.best_len)
            THEN MatchingLoop(groups, in_displays, i + 1,
                     [matching |-> (IF acc.best_len < group_len
                                    THEN <<>> ELSE acc.matching)
                                   \o <<valid_group>>,
                      best_len |-> IF acc.best_len < group_len
                                   THEN group_len ELSE acc.best_len])
            ELSE MatchingLoop(groups, in_displays, i + 1, acc)

\* serialize_to_string of the ConfigGroup built from a group's configs: the
\* Configs it writes.
SerializeGroup(vcg) == {vcg.configs[u] : u \in vcg.uuids}

NoResolution ==
    [tag |-> "None", group |-> NoGroup, uuids |-> {}, cg_strs |-> <<>>]

find_most_precise_config_group(groups, in_displays) ==
    LET r == MatchingLoop(groups, in_displays, 1,
                          [matching |-> <<>>, best_len |-> 0])
    IN IF r.best_len = 0
       THEN [NoResolution EXCEPT !.tag = "NoMatchingConfigGroup",
                                 !.uuids = in_displays]
       ELSE IF Len(r.matching) > 1
       THEN [NoResolution EXCEPT !.tag = "AmbiguousConfigGroup",
                 !.cg_strs = [k \in 1..Len(r.matching) |->
                                 SerializeGroup(r.matching[k])]]
       ELSE [NoResolution EXCEPT !.tag = "Ok",
                                 !.group = r.matching[Len(r.matching)]]

(***************************************************************************)
(* knoll.rs: pipeline_command with a non-empty configuration.             *)
(***************************************************************************)
PipelineInit ==
    /\ vcgs \in ValidatedGroupLists
    /\ attached \in SUBSET UUIDs
    /\ resolution = NoResolution
    /\ chosen_config = NoGroup
    /\ ppc = "resolve"
    /\ TxnIdle
    /\ DaemonIdle
    /\ ExtIdle

\* line 726: find_most_precise_config_group(...)?
Resolve ==
    /\ ppc = "resolve"
    /\ resolution' = find_most_precise_config_group(vcgs, attached)
    /\ ppc' = IF resolution'.tag = "Ok" THEN "configure" ELSE "failed"
    /\ UNCHANGED <<vcgs, attached, chosen_config, txn_vars, daemon_vars, ext_vars>>

\* line 727: the chosen group is handed to configure_displays.
Configure ==
    /\ ppc = "configure"
    /\ chosen_config' = resolution.group
    /\ ppc' = "done"
    /\ UNCHANGED <<vcgs, attached, resolution, txn_vars, daemon_vars, ext_vars>>

PipelineNext == Resolve \/ Configure

PipelineSpec == PipelineInit /\ [][PipelineNext]_vars

(***************************************************************************)
(* Group resolution: C1, C2, C3.                                           *)
(***************************************************************************)
\* A group is feasible when every UUID it names is attached.
Feasible(g) == g.uuids \subseteq attached

Size(g) == Cardinality(g.uuids)

\* The feasible groups of the largest feasible size, by index.
TopFeasible ==
    {i \in 1..Len(vcgs) :
        /\ Feasible(vcgs[i])
        /\ \A j \in 1..Len(vcgs) : Feasible(vcgs[j]) => Size(vcgs[j]) <= Size(vcgs[i])}

\* C1: resolution returns group G exactly when G is feasible and every
\* other feasible group names strictly fewer displays than G.
C1_MostPreciseFeasibleGroup ==
    ppc # "resolve" =>
        \A i \in 1..Len(vcgs) :
            (resolution.tag = "Ok" /\ resolution.group = vcgs[i])
            <=> (/\ Feasible(vcgs[i])
                 /\ \A j \in 1..Len(vcgs) :
                       (j # i /\ Feasible(vcgs[j])) => Size(vcgs[j]) < Size(vcgs[i]))

\* A feasible group was chosen over a smaller feasible group while a larger
\* group was infeasible.
C1_Witness ==
    /\ ppc = "done"
    /\ chosen_config = resolution.group
    /\ \E j \in 1..Len(vcgs) : Feasible(vcgs[j]) /\ Size(vcgs[j]) < Size(chosen_config)
    /\ \E j \in 1..Len(vcgs) : ~Feasible(vcgs[j]) /\ Size(vcgs[j]) > Size(chosen_config)

\* C2: when two or more feasible groups share the largest feasible size,
\* resolution fails with AmbiguousConfigGroup, the error lists exactly the
\* feasible groups of that size, and no group is handed to configure_displays.
C2_AmbiguousConfigGroup ==
    (ppc # "resolve" /\ Cardinality(TopFeasible) >= 2) =>
        /\ resolution.tag = "AmbiguousConfigGroup"
        /\ Len(resolution.cg_strs) = Cardinality(TopFeasible)
        /\ {resolution.cg_strs[k] : k \in 1..Len(resolution.cg_strs)}
              = {SerializeGroup(vcgs[i]) : i \in TopFeasible}
        /\ ppc = "failed"
        /\ chosen_config = NoGroup

\* Attached {A,B} with candidates [{A},{B}] has been resolved.
C2_Witness ==
    /\ ppc = "failed"
    /\ attached = {"A", "B"}
    /\ Len(vcgs) = 2
    /\ vcgs[1].uuids = {"A"}
    /\ vcgs[2].uuids = {"B"}
    /\ resolution.tag = "AmbiguousConfigGroup"

\* C3: resolution fails with NoMatchingConfigGroup exactly when no group is
\* feasible, and the error carries exactly the attached UUIDs.
C3_NoMatchingConfigGroup ==
    ppc # "resolve" =>
        /\ (resolution.tag = "NoMatchingConfigGroup")
              <=> (\A i \in 1..Len(vcgs) : ~Feasible(vcgs[i]))
        /\ resolution.tag = "NoMatchingConfigGroup" =>
              (resolution.uuids = attached /\ ppc = "failed")

\* No group was feasible for a non-empty set of attached displays, none of
\* which the configuration names.
C3_Witness ==
    /\ ppc = "failed"
    /\ resolution.tag = "NoMatchingConfigGroup"
    /\ attached # {}
    /\ \A i \in 1..Len(vcgs) : vcgs[i].uuids \cap attached = {}
    /\ resolution.uuids = attached

(***************************************************************************)
(* The configuration transactions of the two backends.                    *)
(***************************************************************************)
PipelineIdle ==
    /\ vcgs = <<>>
    /\ attached = {}
    /\ resolution = NoResolution
    /\ chosen_config = NoGroup
    /\ ppc = "idle"

\* The state after DS::current() on one of the two backends.
TxnInit ==
    /\ backend \in {"fake", "real"}
    /\ displays \in InitialDisplays
    /\ display_state = Current(displays)
    /\ txn = NoTxn
    /\ session = NoSession
    /\ last = NoCall
    /\ closed_by = "none"
    /\ PipelineIdle
    /\ DaemonIdle
    /\ ExtIdle

\* DisplayState::current, called again while no transaction is open.
TakeSnapshot ==
    /\ ~txn.exists \/ txn.dropped
    /\ display_state' = Current(displays)
    /\ UNCHANGED <<backend, displays, txn, session, last, closed_by, pipeline_vars, daemon_vars, ext_vars>>

\* FakeDisplayState::set_displays with the current displays less u: the
\* backend no longer knows display u.
Unplug(u) ==
    /\ backend = "fake"
    /\ u \in DOMAIN displays
    /\ displays' = Restrict(displays, DOMAIN displays \ {u})
    /\ UNCHANGED <<backend, display_state, txn, session, last, closed_by, pipeline_vars, daemon_vars, ext_vars>>

\* FakeDisplayConfigTransaction::new.
FakeTxnNew(display_map) ==
    [NoTxn EXCEPT !.exists = TRUE,
                  !.edit_map = [u \in DOMAIN display_map |-> <<>>]]

\* RealDisplayConfigTransaction::new, once cg_begin_display_configuration
\* has returned a CGDisplayConfigRef.
RealTxnNew(real_display_map) ==
    [NoTxn EXCEPT !.exists = TRUE, !.displays = DOMAIN real_display_map,
                  !.config_ref = "ref"]

\* DisplayState::configure on the snapshot.
Begin ==
    /\ ~txn.exists
    /\ IF backend = "fake"
       THEN /\ txn' = FakeTxnNew(display_state)
            /\ session' = session
            /\ last' = [op |-> "configure", result |-> Ok]
       ELSE \E cg_ok \in BOOLEAN :
              IF cg_ok
              THEN /\ txn' = RealTxnNew(display_state)
                   /\ session' = [NoSession EXCEPT !.state = "open"]
                   /\ last' = [op |-> "configure", result |-> Ok]
              ELSE /\ txn' = txn
                   /\ session' = session
                   /\ last' = [op |-> "configure", result |-> Internal]
    /\ UNCHANGED <<backend, displays, display_state, closed_by, pipeline_vars, daemon_vars, ext_vars>>

\* The edits the transaction holds: those of edit_map, those handed to the
\* Core Graphics session, and the rotations.
RECURSIVE EditMapCount(_, _)
EditMapCount(edit_map, keys) ==
    IF keys = <<>> THEN 0
    ELSE Len(edit_map[Head(keys)]) + EditMapCount(edit_map, Tail(keys))

EditCount ==
    EditMapCount(txn.edit_map, SortedKeys(DOMAIN txn.edit_map))
    + Len(session.queued) + Cardinality(DOMAIN txn.rotations)

\* A record_edit that opens an entry for a UUID it does not know.
record_edit_AnyUUID(t, uuid, edit) ==
    IF t.dropped
    THEN [txn |-> t, result |-> InvalidTransactionState]
    ELSE [txn |-> [t EXCEPT !.edit_map =
                      [u \in DOMAIN @ \cup {uuid} |->
                          IF u \in DOMAIN @ /\ u # uuid THEN @[u]
                          ELSE IF u \in DOMAIN @ THEN Append(@[u], edit)
                          ELSE <<edit>>]],
          result |-> Ok]

\* FakeDisplayConfigTransaction::record_edit without the test of `dropped`.
record_edit_NoDroppedTest(t, uuid, edit) ==
    IF uuid \in DOMAIN t.edit_map
    THEN [txn |-> [t EXCEPT !.edit_map[uuid] = Append(@, edit)], result |-> Ok]
    ELSE [txn |-> t, result |-> UnknownUUID(uuid)]

\* FakeDisplayConfigTransaction::record_edit: the transaction and the result.
record_edit(t, uuid, edit) ==
    IF t.dropped
    THEN [txn |-> t, result |-> InvalidTransactionState]
    ELSE IF uuid \in DOMAIN t.edit_map
    THEN [txn |-> [t EXCEPT !.edit_map[uuid] = Append(@, edit)], result |-> Ok]
    ELSE [txn |-> t, result |-> UnknownUUID(uuid)]

\* An edit of the fake transaction: a call of record_edit.
FakeEdit(op, uuid, edit) ==
    LET r == record_edit(txn, uuid, edit)
    IN /\ r.result = Ok => EditCount < MaxEdits
       /\ txn' = r.txn
       /\ last' = [op |-> op, result |-> r.result]
       /\ UNCHANGED session

\* An edit of the real transaction that is handed to Core Graphics with
\* config_ref: the test of `dropped`, display_id, and the cg(s)_configure_*
\* call, which may report an error.
RealEdit(op, uuid, edit) ==
    IF txn.dropped
    THEN /\ last' = [op |-> op, result |-> InvalidTransactionState]
         /\ UNCHANGED <<txn, session>>
    ELSE IF uuid \notin txn.displays
    THEN /\ last' = [op |-> op, result |-> UnknownUUID(uuid)]
         /\ UNCHANGED <<txn, session>>
    ELSE \E cg_ok \in BOOLEAN :
           IF cg_ok
           THEN /\ EditCount < MaxEdits
                /\ session' = [session EXCEPT
                                  !.queued = Append(@, [uuid |-> uuid, edit |-> edit])]
                /\ last' = [op |-> op, result |-> Ok]
                /\ UNCHANGED txn
           ELSE /\ last' = [op |-> op, result |-> Internal]
                /\ UNCHANGED <<txn, session>>

EditFrame == UNCHANGED <<backend, displays, display_state, closed_by, pipeline_vars, daemon_vars, ext_vars>>

\* set_mode, with a mode of the display it is used with (both
\* implementations panic on a mode of another display).
SetMode(uuid, mode) ==
    /\ txn.exists
    /\ mode.uuid = uuid
    /\ IF backend = "fake"
       THEN FakeEdit("set_mode", uuid, [kind |-> "SetMode", value |-> mode])
       ELSE RealEdit("set_mode", uuid, [kind |-> "SetMode", value |-> mode])
    /\ EditFrame

\* RealDisplayConfigTransaction::set_rotation.
RealSetRotation(uuid, rotation) ==
    /\ IF txn.dropped
       THEN /\ last' = [op |-> "set_rotation", result |-> InvalidTransactionState]
            /\ UNCHANGED txn
       ELSE IF uuid \notin txn.displays
       THEN /\ last' = [op |-> "set_rotation", result |-> UnknownUUID(uuid)]
            /\ UNCHANGED txn
       ELSE IF uuid \in DOMAIN txn.rotations
       THEN /\ last' = [op |-> "set_rotation", result |-> DuplicateConfiguration(uuid)]
            /\ UNCHANGED txn
       ELSE /\ EditCount < MaxEdits
            /\ txn' = [txn EXCEPT !.rotations =
                          [v \in DOMAIN @ \cup {uuid} |->
                              IF v = uuid THEN rotation ELSE @[v]]]
            /\ last' = [op |-> "set_rotation", result |-> Ok]
    /\ UNCHANGED <<session, displays>>

SetRotation(uuid, rotation) ==
    /\ txn.exists
    /\ IF backend = "fake"
       THEN /\ FakeEdit("set_rotation", uuid,
                        [kind |-> "SetRotation", value |-> rotation])
            /\ UNCHANGED displays
       ELSE RealSetRotation(uuid, rotation)
    /\ UNCHANGED <<backend, display_state, closed_by, pipeline_vars, daemon_vars, ext_vars>>

SetOrigin(uuid, point) ==
    /\ txn.exists
    /\ IF backend = "fake"
       THEN FakeEdit("set_origin", uuid, [kind |-> "SetOrigin", value |-> point])
       ELSE RealEdit("set_origin", uuid, [kind |-> "SetOrigin", value |-> point])
    /\ EditFrame

\* set_enabled: the real transaction hands only `false` to Core Graphics.
SetEnabled(uuid, enabled) ==
    /\ txn.exists
    /\ IF backend = "fake"
       THEN FakeEdit("set_enabled", uuid, [kind |-> "SetEnabled", value |-> enabled])
       ELSE IF enabled /\ ~txn.dropped /\ uuid \in txn.displays
       THEN /\ last' = [op |-> "set_enabled", result |-> Ok]
            /\ UNCHANGED <<txn, session>>
       ELSE RealEdit("set_enabled", uuid, [kind |-> "SetEnabled", value |-> enabled])
    /\ EditFrame

\* FakeDisplayConfigTransaction::set_mirroring.
SetMirroring(uuid, mirror_uuid) ==
    /\ txn.exists
    /\ backend = "fake"
    /\ FakeEdit("set_mirroring", uuid,
                [kind |-> "SetMirroredDisplay", value |-> mirror_uuid])
    /\ EditFrame

\* FakeDisplayConfigTransaction::set_brightness, brightness in tenths.
SetBrightness(uuid, brightness) ==
    /\ txn.exists
    /\ backend = "fake"
    /\ IF brightness < 0 \/ brightness > 10
       THEN /\ last' = [op |-> "set_brightness", result |-> InvalidBrightness]
            /\ UNCHANGED <<txn, session>>
       ELSE FakeEdit("set_brightness", uuid,
                     [kind |-> "SetBrightness", value |-> brightness])
    /\ EditFrame

\* A commit that clears the mirroring of a display it holds no edit for.
RECURSIVE FakeCommitLoop_ClearsMirroring(_, _, _)
FakeCommitLoop_ClearsMirroring(edit_map, keys, guard) ==
    IF keys = <<>>
    THEN [displays |-> guard, edit_map |-> EmptyMap, result |-> Ok]
    ELSE LET uuid == Head(keys)
         IN IF uuid \in DOMAIN guard
            THEN FakeCommitLoop_ClearsMirroring(edit_map, Tail(keys),
                    [guard EXCEPT ![uuid] =
                        IF edit_map[uuid] = <<>>
                        THEN [@ EXCEPT !.mirrored_display = None]
                        ELSE apply_edits(@, edit_map[uuid])])
            ELSE [displays |-> guard,
                  edit_map |-> Restrict(edit_map,
                                 {Tail(keys)[i] : i \in 1..Len(Tail(keys))}),
                  result |-> UnknownUUID(uuid)]

\* The loop of FakeDisplayConfigTransaction::commit over edit_map in key
\* order, on the locked CURRENT_FAKE_DISPLAYS (guard): the displays, the
\* entries not yet popped and the result.
RECURSIVE FakeCommitLoop(_, _, _)
FakeCommitLoop(edit_map, keys, guard) ==
    IF keys = <<>>
    THEN [displays |-> guard, edit_map |-> EmptyMap, result |-> Ok]
    ELSE LET uuid == Head(keys)
         IN IF uuid \in DOMAIN guard
            THEN FakeCommitLoop(edit_map, Tail(keys),
                    [guard EXCEPT ![uuid] = apply_edits(@, edit_map[uuid])])
            ELSE [displays |-> guard,
                  edit_map |-> Restrict(edit_map,
                                 {Tail(keys)[i] : i \in 1..Len(Tail(keys))}),
                  result |-> UnknownUUID(uuid)]

\* What Core Graphics does with the edits of a completed session, followed
\* by the mpd_set_rotation calls of commit.
RECURSIVE ApplyQueued(_, _)
ApplyQueued(disp, queued) ==
    IF queued = <<>> THEN disp
    ELSE LET q == Head(queued)
         IN ApplyQueued([disp EXCEPT ![q.uuid] = apply_edit(@, q.edit)],
                        Tail(queued))

ApplyRotations(disp, rotations) ==
    [u \in DOMAIN disp |->
        IF u \in DOMAIN rotations
        THEN [disp[u] EXCEPT !.rotation = rotations[u]]
        ELSE disp[u]]

\* move_config: the reference handed out, null left behind.
CGCall(fn, config_ref) == <<fn, config_ref>>

\* A Drop that still holds the CGDisplayConfigRef after a failed commit or
\* cancel (a move_config that copies the reference instead of swapping it).
DropAfterFailure_KeepsRef(s) ==
    [s EXCEPT !.state = "failed",
              !.calls = Append(@, CGCall("cancel", "ref"))]

\* Drop for RealDisplayConfigTransaction, as run at the end of a commit or
\* cancel that returned early with `dropped` still false.
DropAfterFailure(s) ==
    [s EXCEPT !.state = "failed",
              !.calls = Append(@, CGCall("cancel", "null"))]

Closed(op) == closed_by' = IF txn.dropped THEN closed_by ELSE op

\* commit(mut self), the drop of self at its end included.
Commit ==
    /\ txn.exists
    /\ IF txn.dropped
       THEN /\ last' = [op |-> "commit", result |-> InvalidTransactionState]
            /\ UNCHANGED <<txn, session, displays>>
       ELSE IF backend = "fake"
       THEN LET r == FakeCommitLoop(txn.edit_map,
                                    SortedKeys(DOMAIN txn.edit_map), displays)
            IN /\ displays' = r.displays
               /\ txn' = [txn EXCEPT !.dropped = TRUE, !.edit_map = r.edit_map]
               /\ last' = [op |-> "commit", result |-> r.result]
               /\ UNCHANGED session
       ELSE \E cg_ok \in BOOLEAN :
              IF cg_ok
              THEN /\ displays' = ApplyRotations(
                                     ApplyQueued(displays, session.queued),
                                     txn.rotations)
                   /\ session' = [session EXCEPT
                         !.state = "completed",
                         !.calls = Append(@, CGCall("complete", txn.config_ref))]
                   /\ txn' = [txn EXCEPT !.dropped = TRUE, !.config_ref = "null"]
                   /\ last' = [op |-> "commit", result |-> Ok]
              ELSE /\ displays' = displays
                   /\ session' = DropAfterFailure([session EXCEPT
                         !.calls = Append(@, CGCall("complete", txn.config_ref))])
                   /\ txn' = [txn EXCEPT !.dropped = TRUE, !.config_ref = "null"]
                   /\ last' = [op |-> "commit", result |-> Internal]
    /\ Closed("commit")
    /\ UNCHANGED <<backend, display_state, pipeline_vars, daemon_vars, ext_vars>>

\* RealDisplayConfigTransaction::cancel(mut self), the drop of self included.
Cancel ==
    /\ txn.exists
    /\ backend = "real"
    /\ IF txn.dropped
       THEN /\ last' = [op |-> "cancel", result |-> InvalidTransactionState]
            /\ UNCHANGED <<txn, session>>
       ELSE \E cg_ok \in BOOLEAN :
              /\ session' =
                   IF cg_ok
                   THEN [session EXCEPT
                           !.state = "cancelled",
                           !.calls = Append(@, CGCall("cancel", txn.config_ref))]
                   ELSE DropAfterFailure([session EXCEPT
                           !.calls = Append(@, CGCall("cancel", txn.config_ref))])
              /\ txn' = [txn EXCEPT !.dropped = TRUE, !.config_ref = "null"]
              /\ last' = [op |-> "cancel", result |-> IF cg_ok THEN Ok ELSE Internal]
    /\ Closed("cancel")
    /\ UNCHANGED <<backend, displays, display_state, pipeline_vars, daemon_vars, ext_vars>>

\* Drop applying the queued rotations before it cancels.
DropRotations_Applied(disp, rotations) == ApplyRotations(disp, rotations)

\* What Drop does with the rotations the transaction holds: nothing.
DropRotations(disp, rotations) == disp

\* The transaction goes out of scope with neither commit nor cancel called:
\* Drop for FakeDisplayConfigTransaction / RealDisplayConfigTransaction.
DropTxn ==
    /\ txn.exists
    /\ ~txn.dropped
    /\ txn' = [txn EXCEPT !.dropped = TRUE, !.config_ref = "null"]
    /\ session' = IF backend = "real"
                  THEN [session EXCEPT
                          !.state = "cancelled",
                          !.calls = Append(@, CGCall("cancel", txn.config_ref))]
                  ELSE session
    /\ displays' = DropRotations(displays, txn.rotations)
    /\ last' = [op |-> "drop", result |-> Ok]
    /\ Closed("drop")
    /\ UNCHANGED <<backend, display_state, pipeline_vars, daemon_vars, ext_vars>>

\* Option<&str> of set_mirroring: displays start with no mirror.
MirrorTargets == {Some("A")}

TxnNext ==
    \/ TakeSnapshot
    \/ \E u \in UUIDs : Unplug(u)
    \/ Begin
    \/ \E u \in UUIDs : \E mode \in ModesOf(u) : SetMode(u, mode)
    \/ \E u \in UUIDs : \E rotation \in Rotations : SetRotation(u, rotation)
    \/ \E u \in UUIDs : \E point \in Origins : SetOrigin(u, point)
    \/ \E u \in UUIDs : \E enabled \in BOOLEAN : SetEnabled(u, enabled)
    \/ \E u \in UUIDs : \E mirror \in MirrorTargets : SetMirroring(u, mirror)
    \/ \E u \in UUIDs : \E brightness \in Brightnesses : SetBrightness(u, brightness)
    \/ Commit
    \/ Cancel
    \/ DropTxn

TxnSpec == TxnInit /\ [][TxnNext]_vars

(***************************************************************************)
(* Claims about the transactions.                                          *)
(***************************************************************************)
\* The edits the open transaction holds for display u, in the order they
\* were made (the real transaction applies its rotations last).
QueuedFor(u) ==
    IF backend = "fake"
    THEN IF u \in DOMAIN txn.edit_map THEN txn.edit_map[u] ELSE <<>>
    ELSE LET mine == SelectSeq(session.queued, LAMBDA q : q.uuid = u)
         IN [i \in 1..Len(mine) |-> mine[i].edit]
            \o (IF u \in DOMAIN txn.rotations
                THEN <<[kind |-> "SetRotation", value |-> txn.rotations[u]]>>
                ELSE <<>>)

TxnDisplays == IF backend = "fake" THEN DOMAIN txn.edit_map ELSE txn.displays

CommitOfOpen == closed_by = "none" /\ closed_by' = "commit"

\* C4: commit is all-or-nothing: when commit of an open transaction
\* returns, either it returned Ok and every display of the transaction
\* carries all its queued edits, or it returned an error and no display has
\* changed, also when a display of the transaction is no longer known to
\* the backend; in both cases the transaction is terminal.
C4_CommitAllOrNothing ==
    [][CommitOfOpen =>
         /\ txn'.dropped
         /\ \/ /\ last'.result = Ok
               /\ \A u \in TxnDisplays :
                     /\ u \in DOMAIN displays'
                     /\ u \in DOMAIN displays
                     /\ displays'[u] = apply_edits(displays[u], QueuedFor(u))
            \/ /\ last'.result # Ok
               /\ displays' = displays]_vars

\* C4: the fake commit has failed on display B, which the backend no
\* longer knows, after it applied the edit queued for display A.
C4_Witness ==
    /\ backend = "fake"
    /\ closed_by = "commit"
    /\ last = [op |-> "commit", result |-> UnknownUUID("B")]
    /\ "A" \in DOMAIN displays
    /\ displays["A"] # Display("A", TRUE)

\* C5: a transaction dropped while open behaves as cancelled: up to and
\* after the drop no display that the backend knows changes, the drop makes
\* the transaction terminal and hands the live session to the cancel call
\* of Core Graphics, and after it nothing of the transaction (its queued
\* edits, its rotations) reaches the displays.
C5_DropWhileOpenIsCancel ==
    [][/\ closed_by' \in {"none", "drop"} =>
             \A u \in DOMAIN displays' :
                 u \in DOMAIN displays /\ displays'[u] = displays[u]
       /\ (closed_by = "none" /\ closed_by' = "drop") =>
             /\ txn'.dropped
             /\ backend = "real" =>
                  /\ session'.state = "cancelled"
                  /\ session'.calls = Append(session.calls, CGCall("cancel", "ref"))
       /\ closed_by = "drop" =>
             closed_by' = "drop" /\ txn' = txn /\ session' = session]_vars

\* C5: a real transaction holding an edit handed to Core Graphics and a
\* rotation has been dropped while open.
C5_Witness ==
    /\ backend = "real"
    /\ closed_by = "drop"
    /\ session.state = "cancelled"
    /\ Len(session.queued) > 0
    /\ DOMAIN txn.rotations # {}

CheckedCalls ==
    {"set_mode", "set_rotation", "set_origin", "set_enabled", "commit", "cancel"}

\* C6: a transaction starts open; commit, cancel and drop make it
\* terminal; a terminal transaction stays terminal; and set_mode,
\* set_rotation, set_origin, set_enabled, commit and cancel on a terminal
\* transaction return InvalidTransactionState and change neither the
\* transaction, nor its session, nor the displays.
C6_TransactionStates ==
    [][/\ (~txn.exists /\ txn'.exists) => ~txn'.dropped
       /\ (txn.exists /\ last' # last /\ last'.op \in {"commit", "cancel", "drop"})
             => txn'.dropped
       /\ txn.dropped => txn'.dropped
       /\ (txn.dropped /\ last' # last) =>
             /\ txn' = txn /\ session' = session /\ displays' = displays
             /\ last'.op \in CheckedCalls =>
                   last'.result = InvalidTransactionState]_vars

\* C6: an edit was called on a transaction that commit has made terminal.
C6_Witness ==
    /\ closed_by = "commit"
    /\ txn.dropped
    /\ last = [op |-> "set_origin", result |-> InvalidTransactionState]

(***************************************************************************)
(* knoll.rs: daemon_command, its worker thread and triger_reconfig.       *)
(***************************************************************************)
\* What ConfigReader::groups can return on success: no group (an empty
\* input), one group, or groups that are ambiguous for displays A and B.
DaemonConfigs ==
    {<<>>,
     <<ValidConfigGroup({"A"})>>,
     <<ValidConfigGroup({"A"}), ValidConfigGroup({"B"})>>}

\* The displays DS::current can report.
DaemonAttached == {{"A"}, {"A", "B"}, {"C"}}

\* The errors a pass can end with.
Err(e) == <<"Err", e>>

\* The state on entry of daemon_command.
DaemonInit ==
    /\ mutex = "free"
    /\ flag = FALSE
    /\ count = 0
    /\ wpc = "unborn"
    /\ mpc = "spawn"
    /\ exit_after_first \in BOOLEAN
    /\ notifications = 0
    /\ pass_result = None
    /\ vcgs = <<>>
    /\ attached = {}
    /\ resolution = NoResolution
    /\ chosen_config = NoGroup
    /\ ppc = "daemon"
    /\ TxnIdle
    /\ ExtIdle

\* The locals of a pass, which the daemon's threads other than the worker
\* leave alone.
pass_vars == <<vcgs, attached, resolution, chosen_config, pass_result>>

MainFrame == UNCHANGED <<count, exit_after_first, pass_vars, ppc, txn_vars, ext_vars>>

\* line 809: std::thread::spawn.
Spawn ==
    /\ mpc = "spawn"
    /\ mpc' = "register"
    /\ wpc' = "lock"
    /\ UNCHANGED <<mutex, flag, notifications>>
    /\ MainFrame

\* line 879: cg_display_register_reconfiguration_callback.
Register ==
    /\ mpc = "register"
    /\ mpc' = "trigger"
    /\ UNCHANGED <<mutex, flag, wpc, notifications>>
    /\ MainFrame

\* A try_lock that is granted whoever holds the mutex.
TryLock_Always(holder) == TRUE

\* Mutex::try_lock: granted when nobody holds the mutex.
TryLock(holder) == holder = "free"

\* line 794 of triger_reconfig: the try_lock, after which the caller either
\* holds the lock or has returned.
TrigerTry(held, returned) ==
    IF TryLock(mutex)
    THEN mutex' = "main" /\ mpc' = held
    ELSE mutex' = mutex /\ mpc' = returned

\* line 884: the initial triger_reconfig().
InitialTrigger ==
    /\ mpc = "trigger"
    /\ TrigerTry("trigger_held", "branch")
    /\ UNCHANGED <<flag, wpc, notifications>>
    /\ MainFrame

\* The run loop invokes the callback triger_reconfig for a change of the
\* displays.
Callback ==
    /\ mpc = "runloop"
    /\ notifications < MaxNotifications
    /\ notifications' = notifications + 1
    /\ TrigerTry("callback_held", "runloop")
    /\ UNCHANGED <<flag, wpc>>
    /\ MainFrame

\* A triger_reconfig that sets the Boolean and releases the lock without
\* notify_one.
TrigerSet_NoNotify ==
    /\ mpc \in {"trigger_held", "callback_held"}
    /\ flag' = TRUE
    /\ mutex' = "free"
    /\ mpc' = IF mpc = "trigger_held" THEN "branch" ELSE "runloop"
    /\ UNCHANGED <<notifications, wpc>>
    /\ MainFrame

\* lines 795-799 of triger_reconfig with the lock held: set the Boolean,
\* notify_one (a waiting worker is woken), and release the lock.
TrigerSet ==
    /\ mpc \in {"trigger_held", "callback_held"}
    /\ flag' = TRUE
    /\ wpc' = IF wpc = "waiting" THEN "woken" ELSE wpc
    /\ mutex' = "free"
    /\ mpc' = IF mpc = "trigger_held" THEN "branch" ELSE "runloop"
    /\ UNCHANGED notifications
    /\ MainFrame

\* line 886: if !exit_after_first; lines 889-890 enter the run loop.
Branch ==
    /\ mpc = "branch"
    /\ mpc' = IF exit_after_first THEN "poll" ELSE "runloop"
    /\ UNCHANGED <<mutex, flag, wpc, notifications>>
    /\ MainFrame

\* lines 893-898: the loop ends once RECONFIGURE_COUNT is not 0, and
\* daemon_command returns Ok(()).
Poll ==
    /\ mpc = "poll"
    /\ count # 0
    /\ mpc' = "returned"
    /\ UNCHANGED <<mutex, flag, wpc, notifications>>
    /\ MainFrame

\* The worker runs as long as the process does.
Alive == mpc # "returned"

WorkerFrame ==
    UNCHANGED <<mpc, exit_after_first, notifications, ppc, txn_vars, ext_vars>>

\* line 811: RECONFIGURE_LOCK.lock().
WorkerLock ==
    /\ Alive
    /\ wpc = "lock"
    /\ mutex = "free"
    /\ mutex' = "worker"
    /\ wpc' = "check"
    /\ UNCHANGED <<flag, count, pass_vars>>
    /\ WorkerFrame

\* line 820: while !*reconfig_in_progress; line 821: Condvar::wait gives
\* up the lock.
WorkerCheck ==
    /\ Alive
    /\ wpc = "check"
    /\ IF flag
       THEN wpc' = "sleep" /\ mutex' = mutex
       ELSE wpc' = "waiting" /\ mutex' = "free"
    /\ UNCHANGED <<flag, count, pass_vars>>
    /\ WorkerFrame

\* Condvar::wait may wake without a notification.
SpuriousWakeup ==
    /\ Alive
    /\ wpc = "waiting"
    /\ wpc' = "woken"
    /\ UNCHANGED <<mutex, flag, count, pass_vars>>
    /\ WorkerFrame

\* A woken worker that starts its pass without testing the Boolean again.
AfterWake_NoTest == "sleep"

\* line 821: wait returns the guard, and the while loop tests again.
AfterWake == "check"

\* Condvar::wait takes the lock again before it returns.
WorkerReacquire ==
    /\ Alive
    /\ wpc = "woken"
    /\ mutex = "free"
    /\ mutex' = "worker"
    /\ wpc' = AfterWake
    /\ UNCHANGED <<flag, count, pass_vars>>
    /\ WorkerFrame

PassStep == UNCHANGED <<mutex, flag, count>>

\* line 834: std::thread::sleep(wait_period).
Quiesce ==
    /\ Alive
    /\ wpc = "sleep"
    /\ wpc' = "reload"
    /\ UNCHANGED pass_vars
    /\ PassStep
    /\ WorkerFrame

\* lines 838-842: config_reader.groups() fails (the file cannot be read,
\* parsed or validated), returns no group (NoConfigGroups), or returns
\* the groups.
Reload ==
    /\ Alive
    /\ wpc = "reload"
    /\ \/ /\ pass_result' = Err("Config")
          /\ wpc' = "report"
          /\ UNCHANGED vcgs
       \/ \E config_groups \in DaemonConfigs :
             /\ vcgs' = config_groups
             /\ IF config_groups = <<>>
                THEN pass_result' = Err("NoConfigGroups") /\ wpc' = "report"
                ELSE pass_result' = None /\ wpc' = "snapshot"
    /\ UNCHANGED <<attached, resolution, chosen_config>>
    /\ PassStep
    /\ WorkerFrame

\* What the worker's call of DS::current() leaves alone.
SnapshotFrame ==
    UNCHANGED <<mpc, exit_after_first, notifications, ppc, txn_vars,
                select_vars, apply_vars, valid_vars, output>>

\* lines 844-846: DS::current() fails or returns the display state.
Snapshot ==
    /\ Alive
    /\ wpc = "snapshot"
    /\ \/ /\ pass_result' = Err("Displays")
          /\ wpc' = "report"
          /\ UNCHANGED <<attached, seen>>
       \/ \E keys \in DaemonAttached :
             /\ attached' = keys
             /\ seen' = notifications
             /\ wpc' = "resolve"
             /\ UNCHANGED pass_result
    /\ UNCHANGED <<vcgs, resolution, chosen_config>>
    /\ PassStep
    /\ SnapshotFrame

\* line 853: find_most_precise_config_group(...).and_then(...).
ResolvePass ==
    /\ Alive
    /\ wpc = "resolve"
    /\ resolution' = find_most_precise_config_group(vcgs, attached)
    /\ IF resolution'.tag = "Ok"
       THEN /\ chosen_config' = resolution'.group
            /\ wpc' = "configure"
            /\ UNCHANGED pass_result
       ELSE /\ pass_result' = Err(resolution'.tag)
            /\ wpc' = "report"
            /\ UNCHANGED chosen_config
    /\ UNCHANGED <<vcgs, attached>>
    /\ PassStep
    /\ WorkerFrame

\* line 855: configure_displays (mode selection, the edits of the
\* transaction and its commit) succeeds or fails.
ConfigurePass ==
    /\ Alive
    /\ wpc = "configure"
    /\ \E ok \in BOOLEAN :
          pass_result' = IF ok THEN Ok ELSE Err("Configure")
    /\ wpc' = "report"
    /\ UNCHANGED <<vcgs, attached, resolution, chosen_config>>
    /\ PassStep
    /\ WorkerFrame

\* A worker thread that ends when its pass has failed.
AfterReport_EndOnError(result) == IF result = Ok THEN "clear" ELSE "ended"

\* lines 862-869: match result: both arms only log.
AfterReport(result) == "clear"

Report ==
    /\ Alive
    /\ wpc = "report"
    /\ wpc' = AfterReport(pass_result)
    /\ UNCHANGED pass_vars
    /\ PassStep
    /\ WorkerFrame

\* line 872: *reconfig_in_progress = false.
Clear ==
    /\ Alive
    /\ wpc = "clear"
    /\ flag' = FALSE
    /\ wpc' = "count"
    /\ UNCHANGED <<mutex, count, pass_vars>>
    /\ WorkerFrame

\* line 874: RECONFIGURE_COUNT.fetch_add(1).
Count ==
    /\ Alive
    /\ wpc = "count"
    /\ count' = count + 1
    /\ wpc' = "unlock"
    /\ UNCHANGED <<mutex, flag, pass_vars>>
    /\ WorkerFrame

\* line 875: the end of the loop body drops the guard and the locals of
\* the pass; `result` is kept as what the pass has logged.
Unlock ==
    /\ Alive
    /\ wpc = "unlock"
    /\ mutex' = "free"
    /\ wpc' = "lock"
    /\ vcgs' = <<>>
    /\ attached' = {}
    /\ resolution' = NoResolution
    /\ chosen_config' = NoGroup
    /\ UNCHANGED <<flag, count, pass_result>>
    /\ WorkerFrame

\* The steps of the main thread that need no change of the displays.
MainStep ==
    \/ Spawn
    \/ Register
    \/ InitialTrigger
    \/ TrigerSet
    \/ Branch
    \/ Poll

\* The steps of the worker thread that need no spurious wakeup.
WorkerStep ==
    \/ WorkerLock
    \/ WorkerCheck
    \/ WorkerReacquire
    \/ Quiesce
    \/ Reload
    \/ Snapshot
    \/ ResolvePass
    \/ ConfigurePass
    \/ Report
    \/ Clear
    \/ Count
    \/ Unlock

DaemonNext == MainStep \/ Callback \/ WorkerStep \/ SpuriousWakeup

DaemonSpec == DaemonInit /\ [][DaemonNext]_vars

\* Both threads are scheduled fairly; neither a change of the displays nor
\* a spurious wakeup has to happen.
DaemonLiveSpec ==
    DaemonInit /\ [][DaemonNext]_vars /\ WF_vars(WorkerStep) /\ WF_vars(MainStep)

(***************************************************************************)
(* Claims about the daemon.                                                *)
(***************************************************************************)
\* The main thread is at the try_lock of triger_reconfig and takes it.
TrigerTries ==
    /\ mpc \in {"trigger", "runloop"}
    /\ mpc' # mpc \/ notifications' # notifications

\* C7: notifications are coalesced, never queued. A triger_reconfig that
\* runs while the worker holds the lock returns at once and changes
\* neither the flag, nor the counter, nor the holder of the lock; while the
\* worker holds the lock the flag is never set; the counter only changes
\* by one, at the end of a pass and with the flag cleared, so that the
\* notifications accepted or dropped since the pass began leave nothing
\* behind; and the worker that then finds the flag false waits.
C7_NotificationsCoalesced ==
    [][/\ (mutex = "worker" /\ TrigerTries) =>
             /\ flag' = flag /\ count' = count /\ mutex' = mutex
             /\ mpc' \in {"branch", "runloop"}
       /\ mutex = "worker" => (flag' => flag)
       /\ count' # count =>
             /\ count' = count + 1
             /\ wpc = "count" /\ mutex = "worker"
             /\ ~flag /\ ~flag'
       /\ (wpc = "unlock" /\ wpc' # wpc) => (~flag' /\ mutex' = "free")
       /\ (wpc = "check" /\ ~flag /\ wpc' # wpc) => wpc' = "waiting"]_vars

\* C7: the initial trigger and two callbacks have run, one pass has
\* completed, and the worker waits with the flag false.
C7_Witness ==
    /\ notifications = 2
    /\ count = 1
    /\ wpc = "waiting"
    /\ ~flag
    /\ mutex = "free"

\* The steps of a pass: the quiescence sleep, the reload of the
\* configuration, the snapshot, the resolution, configure_displays and the
\* report of the result.
PassPCs == {"sleep", "reload", "snapshot", "resolve", "configure", "report"}

\* C8: a pass is in progress only while the worker, the one thread that
\* runs passes, holds the reconfiguration mutex and the flag is true.
C8_PassHoldsLockAndFlag ==
    wpc \in PassPCs => (mutex = "worker" /\ flag)

\* C8: a second pass is at configure_displays after a callback ran.
C8_Witness ==
    /\ wpc = "configure"
    /\ count >= 1
    /\ notifications >= 1
    /\ mutex = "worker"

Failed(result) == result # None /\ result # Ok

\* C9: a failed pass does not stop the worker. While the process runs, a
\* pass that reports an error with the counter at c leads to the counter
\* at c + 1 with the flag cleared and the lock released, the worker back at
\* the top of its loop; and once a notification has then been accepted
\* (the flag is set while the worker is outside a pass), a new pass begins.
C9_FailedPassIsIsolated ==
    /\ \A c \in 0..(MaxNotifications + 1) :
          (wpc = "report" /\ Failed(pass_result) /\ count = c)
             ~> \/ wpc = "lock" /\ count = c + 1 /\ ~flag /\ mutex = "free"
                \/ ~Alive
    /\ (Failed(pass_result) /\ flag /\ wpc \in {"lock", "check", "woken"})
          ~> (wpc = "sleep" \/ ~Alive)

\* C9: a pass has failed and been counted, and the next pass has begun.
C9_Witness ==
    /\ wpc = "sleep"
    /\ count >= 1
    /\ Failed(pass_result)

\* C10: under fair scheduling of both threads a first pass completes
\* without any callback, and with exit_after_first daemon_command returns.
C10_FirstPassCompletes ==
    /\ <>(count >= 1)
    /\ <>(exit_after_first => mpc = "returned")

\* C10: the initial trigger found the lock held by the starting worker, the
\* worker then waits with the flag false, and the main thread polls a
\* counter that stays 0.
C10_Witness ==
    /\ exit_after_first
    /\ mpc = "poll"
    /\ wpc = "waiting"
    /\ ~flag
    /\ count = 0

(***************************************************************************)
(* knoll.rs: select_mode; displays.rs: match_pattern, matching_modes.     *)
(***************************************************************************)
Extents == {<<1920, 1080>>, <<1280, 720>>}

Frequencies == {50, 60}

\* The display modes display A may offer.
ModeUniverse ==
    {[DisplayMode("A", sc, ext) EXCEPT !.frequency = f] :
        sc \in BOOLEAN, ext \in Extents, f \in Frequencies}

\* The lists RealDisplay::new builds from the keys of mode_buckets: no two
\* entries agree on scaled, color_depth, frequency and extents.
ModeLists ==
    LET Lists == UNION {[1..n -> ModeUniverse] : n \in 0..MaxModes}
    IN {l \in Lists : \A i, j \in 1..Len(l) : i # j => l[i] # l[j]}

\* The Configs of display A as far as select_mode reads them.
ModeConfigs ==
    {[DefaultConfig("A") EXCEPT !.scaled = sc, !.color_depth = cd,
                                !.frequency = f, !.extents = ext] :
        sc \in {None, Some(TRUE), Some(FALSE)},
        cd \in {None, Some(8)},
        f \in {None, Some(60)},
        ext \in {None, Some(<<1920, 1080>>)}}

mode_pattern_from_config(c) ==
    [scaled |-> c.scaled, color_depth |-> c.color_depth,
     frequency |-> c.frequency, extents |-> c.extents]

\* Option::iter().all(p): true of None, p(v) of Some(v).
OptionAll(opt, v) == \A i \in 1..Len(opt) : opt[i] = v

\* match_pattern without the test of the frequency.
match_pattern_NoFrequency(m, pattern) ==
    /\ OptionAll(pattern.scaled, m.scaled)
    /\ OptionAll(pattern.color_depth, m.color_depth)
    /\ OptionAll(pattern.extents, m.extents)

\* DisplayMode::match_pattern.
match_pattern(m, pattern) ==
    /\ OptionAll(pattern.scaled, m.scaled)
    /\ OptionAll(pattern.color_depth, m.color_depth)
    /\ OptionAll(pattern.frequency, m.frequency)
    /\ OptionAll(pattern.extents, m.extents)

\* Display::matching_modes.
matching_modes(mode_list, pattern) ==
    SelectSeq(mode_list, LAMBDA m : match_pattern(m, pattern))

\* serialize_to_string of a mode: the uuid is skipped.
SerializeMode(m) ==
    [scaled |-> m.scaled, color_depth |-> m.color_depth,
     frequency |-> m.frequency, extents |-> m.extents]

\* The results of select_mode.
SelectOk(m) == [tag |-> "Ok", mode |-> Some(m), uuid |-> "", strs |-> <<>>]

AmbiguousDisplayMode(u, mode_strs) ==
    [tag |-> "AmbiguousDisplayMode", mode |-> None, uuid |-> u,
     strs |-> mode_strs]

NoMatchingDisplayMode(u, config_str) ==
    [tag |-> "NoMatchingDisplayMode", mode |-> None, uuid |-> u,
     strs |-> <<config_str>>]

select_mode(mode_list, u, c) ==
    LET ms == matching_modes(mode_list, mode_pattern_from_config(c))
    IN IF Len(ms) > 1
       THEN AmbiguousDisplayMode(u, [i \in 1..Len(ms) |-> SerializeMode(ms[i])])
       ELSE IF Len(ms) > 0
       THEN SelectOk(ms[Len(ms)])
       ELSE NoMatchingDisplayMode(u, c)

\* A call select_mode(display, config, format) for display A.
SelectInit ==
    /\ possible_modes \in ModeLists
    /\ mode_config \in ModeConfigs
    /\ select_result = None
    /\ spc = "call"
    /\ vcgs = <<>>
    /\ attached = {}
    /\ resolution = NoResolution
    /\ chosen_config = NoGroup
    /\ ppc = "idle"
    /\ TxnIdle
    /\ DaemonIdle
    /\ ApplyIdle
    /\ ValidIdle
    /\ IoIdle

SelectMode ==
    /\ spc = "call"
    /\ select_result' = select_mode(possible_modes, "A", mode_config)
    /\ spc' = "done"
    /\ UNCHANGED <<possible_modes, mode_config, apply_vars, valid_vars,
                   io_vars, pipeline_vars, txn_vars, daemon_vars>>

SelectNext == SelectMode

SelectSpec == SelectInit /\ [][SelectNext]_vars

ModeFields == {"scaled", "color_depth", "frequency", "extents"}

\* Mode m equals Config c on every field that c sets.
Agrees(m, c) == \A f \in ModeFields : c[f] = None \/ c[f] = Some(m[f])

AgreeingModes ==
    {m \in {possible_modes[i] : i \in 1..Len(possible_modes)} :
        Agrees(m, mode_config)}

\* C11: select_mode returns mode m exactly when m is the only available
\* mode that equals the Config on every field it sets; it fails with
\* NoMatchingDisplayMode exactly when no available mode does and with
\* AmbiguousDisplayMode exactly when two or more do; the set of available
\* modes decides, not their order.
C11_SelectMode ==
    spc = "done" =>
       /\ select_result.tag = "Ok" <=> Cardinality(AgreeingModes) = 1
       /\ select_result.tag = "Ok" => AgreeingModes = {select_result.mode[1]}
       /\ select_result.tag = "NoMatchingDisplayMode" <=> AgreeingModes = {}
       /\ select_result.tag = "AmbiguousDisplayMode"
             <=> Cardinality(AgreeingModes) >= 2

\* C11: the one matching mode is the first of three, picked by frequency.
C11_Witness ==
    /\ spc = "done"
    /\ select_result.tag = "Ok"
    /\ Len(possible_modes) = 3
    /\ possible_modes[1] = select_result.mode[1]
    /\ mode_config.frequency # None
    /\ \E i \in 2..3 : possible_modes[i].frequency # 60

(***************************************************************************)
(* knoll.rs: configure_displays, on the fake backend.                     *)
(***************************************************************************)
\* Display::possible_modes of the displays of the model.
PossibleModes(u) ==
    <<DisplayMode(u, FALSE, <<1920, 1080>>), DisplayMode(u, TRUE, <<1280, 720>>)>>

Other(u) == IF u = "A" THEN "B" ELSE "A"

\* The displays configure_displays starts from: A and B enabled, B on its
\* own or mirroring A.
ApplyDisplays ==
    {[u \in {"A", "B"} |->
        IF u = "B" THEN [Display(u, TRUE) EXCEPT !.mirrored_display = mirror]
        ELSE Display(u, TRUE)] : mirror \in {None, Some("A")}}

\* Configs for display u that pass ValidConfigGroup::from.
ApplyConfigs(u) ==
    {DefaultConfig(u),
     [DefaultConfig(u) EXCEPT !.extents = Some(<<1280, 720>>)],
     [DefaultConfig(u) EXCEPT !.extents = Some(<<1920, 1080>>),
                              !.rotation = Some(90),
                              !.origin = Some(<<1920, 0>>)],
     [DefaultConfig(u) EXCEPT !.extents = Some(<<1920, 1080>>),
                              !.scaled = Some(TRUE)],
     [DefaultConfig(u) EXCEPT !.extents = Some(<<1280, 720>>),
                              !.brightness = Some(5)],
     [DefaultConfig(u) EXCEPT !.extents = Some(<<1280, 720>>),
                              !.brightness = Some(11)],
     [DefaultConfig(u) EXCEPT !.enabled = Some(FALSE)],
     [DefaultConfig(u) EXCEPT !.mirror_of = Some(Other(u))],
     [DefaultConfig(u) EXCEPT !.mirror_of = Some(Other(u)),
                              !.enabled = Some(FALSE)]}

\* The groups find_most_precise_config_group can hand over for the attached
\* displays S: every display of the group is attached, and no display
\* mirrors a mirroring display.
ApplyGroups(S) ==
    LET Groups == UNION {[T -> UNION {ApplyConfigs(u) : u \in T}] :
                            T \in (SUBSET S) \ {{}}}
    IN {[uuids |-> DOMAIN g, configs |-> g] : g \in
          {g \in Groups :
              /\ \A u \in DOMAIN g : g[u].uuid = u
              /\ \A u \in DOMAIN g :
                    (g[u].mirror_of # None /\ g[u].mirror_of[1] \in DOMAIN g)
                       => g[g[u].mirror_of[1]].mirror_of = None}}

\* The orders in which a HashMap with keys S may be iterated.
IterationOrders(S) ==
    {o \in [1..Cardinality(S) -> S] : \A i, j \in DOMAIN o : i # j => o[i] # o[j]}

\* A first loop that selects a mode for a mirroring display as well.
RECURSIVE SelectLoop_Mirrors(_, _, _, _)
SelectLoop_Mirrors(order, configs, snapshot, acc) ==
    IF order = <<>> THEN acc
    ELSE LET uuid == Head(order)
             c == configs[uuid]
             r == select_mode(PossibleModes(snapshot[uuid].uuid), uuid, c)
         IN IF r.tag = "Ok"
            THEN SelectLoop_Mirrors(Tail(order), configs, snapshot,
                    [acc EXCEPT !.selected_modes =
                        [v \in DOMAIN @ \cup {uuid} |->
                            IF v = uuid THEN r.mode[1] ELSE @[v]]])
            ELSE [acc EXCEPT !.result = r]

\* lines 591-607: the first loop. acc holds selected_modes and the result.
RECURSIVE SelectLoop(_, _, _, _)
SelectLoop(order, configs, snapshot, acc) ==
    IF order = <<>> THEN acc
    ELSE LET uuid == Head(order)
             c == configs[uuid]
         IN IF c.mirror_of # None
            THEN SelectLoop(Tail(order), configs, snapshot, acc)
            ELSE LET r == select_mode(PossibleModes(snapshot[uuid].uuid), uuid, c)
                 IN IF r.tag = "Ok"
                    THEN SelectLoop(Tail(order), configs, snapshot,
                            [acc EXCEPT !.selected_modes =
                                [v \in DOMAIN @ \cup {uuid} |->
                                    IF v = uuid THEN r.mode[1] ELSE @[v]]])
                    ELSE [acc EXCEPT !.result = r]

Call(u, op, edit) == [uuid |-> u, op |-> op, edit |-> edit]

OptionalCall(u, op, kind, opt) ==
    IF opt = None THEN <<>>
    ELSE <<Call(u, op, [kind |-> kind, value |-> opt[1]])>>

\* A second loop that sets the mode before the rotation and the brightness.
CallsFor_ModeFirst(u, c, modes_map) ==
    IF c.mirror_of # None
    THEN <<Call(u, "set_mirroring",
                [kind |-> "SetMirroredDisplay", value |-> c.mirror_of])>>
         \o (IF c.enabled = Some(FALSE)
             THEN <<Call(u, "set_enabled", [kind |-> "SetEnabled", value |-> FALSE])>>
             ELSE <<>>)
    ELSE IF c.enabled = Some(FALSE)
    THEN <<Call(u, "set_enabled", [kind |-> "SetEnabled", value |-> FALSE])>>
    ELSE <<Call(u, "set_mirroring",
                [kind |-> "SetMirroredDisplay", value |-> None])>>
         \o <<Call(u, "set_mode", [kind |-> "SetMode", value |-> modes_map[u]])>>
         \o OptionalCall(u, "set_rotation", "SetRotation", c.rotation)
         \o OptionalCall(u, "set_brightness", "SetBrightness", c.brightness)
         \o OptionalCall(u, "set_origin", "SetOrigin", c.origin)

\* lines 610-663: the calls on cfgtxn the second loop makes for one Config.
CallsFor(u, c, modes_map) ==
    IF c.mirror_of # None
    THEN <<Call(u, "set_mirroring",
                [kind |-> "SetMirroredDisplay", value |-> c.mirror_of])>>
         \o (IF c.enabled = Some(FALSE)
             THEN <<Call(u, "set_enabled", [kind |-> "SetEnabled", value |-> FALSE])>>
             ELSE <<>>)
    ELSE IF c.enabled = Some(FALSE)
    THEN <<Call(u, "set_enabled", [kind |-> "SetEnabled", value |-> FALSE])>>
    ELSE <<Call(u, "set_mirroring",
                [kind |-> "SetMirroredDisplay", value |-> None])>>
         \o OptionalCall(u, "set_rotation", "SetRotation", c.rotation)
         \o OptionalCall(u, "set_brightness", "SetBrightness", c.brightness)
         \o <<Call(u, "set_mode", [kind |-> "SetMode", value |-> modes_map[u]])>>
         \o OptionalCall(u, "set_origin", "SetOrigin", c.origin)

RECURSIVE PlannedCalls(_, _, _)
PlannedCalls(order, configs, modes_map) ==
    IF order = <<>> THEN <<>>
    ELSE CallsFor(Head(order), configs[Head(order)], modes_map)
         \o PlannedCalls(Tail(order), configs, modes_map)

\* configure_displays(&display_state, config_group, format) is called with
\* the snapshot of the fake backend and a group resolved for it.
ApplyInit ==
    /\ backend = "fake"
    /\ displays \in ApplyDisplays
    /\ display_state = Current(displays)
    /\ txn = NoTxn
    /\ session = NoSession
    /\ last = NoCall
    /\ closed_by = "none"
    /\ chosen_config \in ApplyGroups(DOMAIN display_state)
    /\ vcgs = <<>>
    /\ attached = {}
    /\ resolution = NoResolution
    /\ ppc = "idle"
    /\ selected_modes = EmptyMap
    /\ pending = <<>>
    /\ apc = "select"
    /\ apply_result = None
    /\ DaemonIdle
    /\ SelectIdle
    /\ ValidIdle
    /\ IoIdle

ApplyFrame ==
    UNCHANGED <<backend, display_state, session, pipeline_vars, daemon_vars,
                select_vars, valid_vars, io_vars>>

\* The error of select_mode as configure_displays returns it: the variant,
\* the UUID and the serialized modes or Config.
ModeError(r) == <<r.tag, r.uuid, r.strs>>

\* lines 588-607: a mode is selected for every Config without mirror_of, in
\* the iteration order of the HashMap, which the second loop follows too.
SelectModes ==
    /\ apc = "select"
    /\ \E order \in IterationOrders(chosen_config.uuids) :
          LET r == SelectLoop(order, chosen_config.configs, display_state,
                              [selected_modes |-> EmptyMap, result |-> None])
          IN IF r.result = None
             THEN /\ selected_modes' = r.selected_modes
                  /\ pending' = PlannedCalls(order, chosen_config.configs,
                                             r.selected_modes)
                  /\ apc' = "configure"
                  /\ UNCHANGED apply_result
             ELSE /\ apply_result' = ModeError(r.result)
                  /\ apc' = "done"
                  /\ UNCHANGED <<selected_modes, pending>>
    /\ UNCHANGED <<displays, txn, last, closed_by>>
    /\ ApplyFrame

\* line 609: display_state.configure()?
ApplyConfigure ==
    /\ apc = "configure"
    /\ txn' = FakeTxnNew(display_state)
    /\ last' = [op |-> "configure", result |-> Ok]
    /\ apc' = "edits"
    /\ UNCHANGED <<displays, closed_by, selected_modes, pending, apply_result>>
    /\ ApplyFrame

\* A set_brightness that records the edit before it tests the range.
FakeCall_RecordFirst(t, call) ==
    IF call.op = "set_brightness"
       /\ (call.edit.value < 0 \/ call.edit.value > 10)
    THEN [txn |-> record_edit(t, call.uuid, call.edit).txn,
          result |-> InvalidBrightness]
    ELSE record_edit(t, call.uuid, call.edit)

\* The method of FakeDisplayConfigTransaction a call runs: set_brightness
\* tests the range before record_edit.
FakeCall(t, call) ==
    IF call.op = "set_brightness"
       /\ (call.edit.value < 0 \/ call.edit.value > 10)
    THEN [txn |-> t, result |-> InvalidBrightness]
    ELSE record_edit(t, call.uuid, call.edit)

\* lines 610-663: the next call on cfgtxn; on an error `?` returns it and
\* cfgtxn is dropped.
IssueEdit ==
    /\ apc = "edits"
    /\ pending # <<>>
    /\ LET r == FakeCall(txn, Head(pending))
       IN /\ last' = [op |-> Head(pending).op, result |-> r.result]
          /\ IF r.result = Ok
             THEN /\ txn' = r.txn
                  /\ pending' = Tail(pending)
                  /\ UNCHANGED <<apc, apply_result, closed_by>>
             ELSE /\ txn' = [r.txn EXCEPT !.dropped = TRUE]
                  /\ apply_result' = r.result
                  /\ closed_by' = "drop"
                  /\ apc' = "done"
                  /\ UNCHANGED pending
    /\ UNCHANGED <<displays, selected_modes>>
    /\ ApplyFrame

\* lines 665-668: cfgtxn.commit()?; Ok(()).
ApplyCommit ==
    /\ apc = "edits"
    /\ pending = <<>>
    /\ LET r == FakeCommitLoop(txn.edit_map, SortedKeys(DOMAIN txn.edit_map),
                               displays)
       IN /\ displays' = r.displays
          /\ txn' = [txn EXCEPT !.dropped = TRUE, !.edit_map = r.edit_map]
          /\ last' = [op |-> "commit", result |-> r.result]
          /\ apply_result' = r.result
    /\ closed_by' = "commit"
    /\ apc' = "done"
    /\ UNCHANGED <<selected_modes, pending>>
    /\ ApplyFrame

ApplyNext == SelectModes \/ ApplyConfigure \/ IssueEdit \/ ApplyCommit

ApplySpec == ApplyInit /\ [][ApplyNext]_vars

OptionalFields ==
    {"mirror_of", "enabled", "origin", "extents", "scaled", "frequency",
     "color_depth", "rotation", "brightness"}

\* What Config field f is about, read off a display.
FieldOf(display, f) ==
    CASE f = "mirror_of" -> display.mirrored_display
      [] f = "enabled" -> Some(display.enabled)
      [] f = "origin" -> Some(display.origin)
      [] f = "rotation" -> Some(display.rotation)
      [] f = "brightness" -> display.brightness
      [] OTHER -> Some(display.mode[f])

Returns == apc # "done" /\ apc' = "done"

\* C12: unset means leave unchanged. When configure_displays returns Ok,
\* every display of the group has, for every optional field its Config
\* leaves unset, the value it had before; and a group whose Configs set no
\* optional field at all is applied without an error.
C12_UnsetLeavesUnchanged ==
    [][Returns =>
         /\ apply_result' = Ok =>
               \A u \in chosen_config.uuids : \A f \in OptionalFields :
                  chosen_config.configs[u][f] = None
                     => FieldOf(displays'[u], f) = FieldOf(displays[u], f)
         /\ (\A u \in chosen_config.uuids :
                chosen_config.configs[u] = DefaultConfig(u))
               => apply_result' = Ok]_vars

\* C12: the group was applied with success, the Config of B leaves
\* mirror_of unset, and B, which mirrored A before, mirrors nothing now.
C12_Witness ==
    /\ apc = "done"
    /\ apply_result = Ok
    /\ "B" \in chosen_config.uuids
    /\ chosen_config.configs["B"].mirror_of = None
    /\ display_state["B"].mirrored_display = Some("A")
    /\ displays["B"].mirrored_display = None

(***************************************************************************)
(* valid_config.rs: ValidConfigGroup::from.                               *)
(***************************************************************************)
\* The display a Config of the model mirrors, if it mirrors one.
MirrorTarget(u) == IF u = "A" THEN "B" ELSE IF u = "B" THEN "C" ELSE "A"

\* The Configs of the model for display u: nothing set, an origin, a
\* mirror target alone or with enabled, with an origin or with a
\* brightness, and a brightness of 1.1.
InputConfigs(u) ==
    {DefaultConfig(u),
     [DefaultConfig(u) EXCEPT !.origin = Some(<<1920, 0>>)],
     [DefaultConfig(u) EXCEPT !.mirror_of = Some(MirrorTarget(u))],
     [DefaultConfig(u) EXCEPT !.mirror_of = Some(MirrorTarget(u)),
                              !.enabled = Some(FALSE)],
     [DefaultConfig(u) EXCEPT !.mirror_of = Some(MirrorTarget(u)),
                              !.origin = Some(<<1920, 0>>)],
     [DefaultConfig(u) EXCEPT !.mirror_of = Some(MirrorTarget(u)),
                              !.brightness = Some(5)],
     [DefaultConfig(u) EXCEPT !.brightness = Some(11)]}

\* ConfigGroup: the Vec of its Configs.
InputGroups ==
    UNION {[1..n -> UNION {InputConfigs(u) : u \in UUIDs}] : n \in 0..MaxConfigs}

\* The results of ValidConfigGroup::from and validate_config_groups.
ValidOk(g) == [tag |-> "Ok", value |-> g]

DuplicateDisplays(S) == [tag |-> "DuplicateDisplays", value |-> S]

DuplicateGroups(S) == [tag |-> "DuplicateGroups", value |-> S]

EmptyGroup == [tag |-> "EmptyGroup", value |-> {}]

InvalidMirrorConfig(u) == [tag |-> "InvalidMirrorConfig", value |-> u]

MirrorOfMirror(u, target) == [tag |-> "MirrorOfMirror", value |-> <<u, target>>]

\* lines 169-182: mirror_of is set and so is another option.
MirrorConflict(c) ==
    /\ c.mirror_of # None
    /\ \/ c.origin # None \/ c.extents # None \/ c.scaled # None
       \/ c.frequency # None \/ c.color_depth # None \/ c.rotation # None

\* lines 166-190: the loop over cg.configs. acc holds `configs`,
\* `duplicates` and the error the loop returned with, if any.
RECURSIVE FromLoop(_, _)
FromLoop(cg, acc) ==
    IF cg = <<>> THEN acc
    ELSE LET c == Head(cg)
         IN IF MirrorConflict(c)
            THEN [acc EXCEPT !.result = Some(InvalidMirrorConfig(c.uuid))]
            ELSE IF c.uuid \notin DOMAIN acc.configs
            THEN FromLoop(Tail(cg),
                    [acc EXCEPT !.configs =
                        [u \in DOMAIN @ \cup {c.uuid} |->
                            IF u = c.uuid THEN c ELSE @[u]]])
            ELSE FromLoop(Tail(cg),
                    [acc EXCEPT !.duplicates = @ \cup {c.uuid}])

\* A chain test that takes any mirror target for a mirroring display.
Chained_AnyTarget(configs, u) == configs[u].mirror_of # None

\* A chain test without the test of the target's own mirror_of.
Chained_NoTargetTest(configs, u) ==
    /\ configs[u].mirror_of # None
    /\ configs[u].mirror_of[1] \in DOMAIN configs

\* lines 200-206: display u mirrors a display of the group that has
\* mirror_of set.
Chained(configs, u) ==
    /\ configs[u].mirror_of # None
    /\ configs[u].mirror_of[1] \in DOMAIN configs
    /\ configs[configs[u].mirror_of[1]].mirror_of # None

\* A test for duplicates that is skipped.
HasDuplicates_Never(duplicates) == FALSE

\* line 193: !duplicates.is_empty().
HasDuplicates(duplicates) == duplicates # {}

\* An emptiness test that lets the empty group pass.
IsEmpty_Never(configs) == FALSE

\* line 196: configs.is_empty().
IsEmpty(configs) == DOMAIN configs = {}

\* ValidConfigGroup::from: the results it can return; more than one only
\* when several displays mirror a mirroring display, as the loop of lines
\* 199-207 returns the first it meets in the order of the HashMap.
ValidConfigGroup_from(cg) ==
    LET r == FromLoop(cg, [configs |-> EmptyMap, duplicates |-> {},
                           result |-> None])
        chained == {u \in DOMAIN r.configs : Chained(r.configs, u)}
    IN IF r.result # None THEN {r.result[1]}
       ELSE IF HasDuplicates(r.duplicates)
       THEN {DuplicateDisplays(r.duplicates)}
       ELSE IF IsEmpty(r.configs) THEN {EmptyGroup}
       ELSE IF chained # {}
       THEN {MirrorOfMirror(u, r.configs[u].mirror_of[1]) : u \in chained}
       ELSE {ValidOk([uuids |-> DOMAIN r.configs, configs |-> r.configs])}

\* ValidConfigGroup::from(cg) is called on one group.
GroupInit ==
    /\ \E cg \in InputGroups : input_groups = <<cg>>
    /\ valid_result = None
    /\ vpc = "from"
    /\ PipelineIdle
    /\ TxnIdle
    /\ DaemonIdle
    /\ SelectIdle
    /\ ApplyIdle
    /\ IoIdle

ValidateGroup ==
    /\ vpc = "from"
    /\ \E r \in ValidConfigGroup_from(input_groups[1]) :
          valid_result' = Some(r)
    /\ vpc' = "done"
    /\ UNCHANGED <<input_groups, pipeline_vars, txn_vars, daemon_vars,
                   select_vars, apply_vars, io_vars>>

GroupNext == ValidateGroup

GroupSpec == GroupInit /\ [][GroupNext]_vars

\* The group handed to ValidConfigGroup::from and what it returned.
TheGroup == input_groups[1]

FromDone == vpc = "done" /\ Len(input_groups) = 1

FromResult == valid_result[1]

\* The UUIDs that head more than one Config of the group cg.
Repeated(cg) ==
    {u \in UUIDs : Cardinality({i \in 1..Len(cg) : cg[i].uuid = u}) > 1}

\* Config c sets mirror_of together with a field other than uuid and
\* enabled.
MirrorsWithMore(c) ==
    /\ c.mirror_of # None
    /\ \E f \in {"origin", "extents", "scaled", "frequency", "color_depth",
                 "rotation", "brightness"} : c[f] # None

\* Config i of cg mirrors the display of Config j of cg, which mirrors too.
MirrorChain(cg, i, j) ==
    /\ cg[i].mirror_of = Some(cg[j].uuid)
    /\ cg[j].mirror_of # None

HasMirrorChain(cg) == \E i, j \in 1..Len(cg) : MirrorChain(cg, i, j)

\* The brightness of c, in tenths, is unset or within [0.0, 1.0].
BrightnessInRange(c) ==
    c.brightness = None \/ (c.brightness[1] >= 0 /\ c.brightness[1] <= 10)

WellFormed(cg) ==
    /\ Len(cg) >= 1
    /\ Repeated(cg) = {}
    /\ \A i \in 1..Len(cg) : ~MirrorsWithMore(cg[i]) /\ BrightnessInRange(cg[i])
    /\ ~HasMirrorChain(cg)

\* C13: for a ConfigGroup of N >= 1 Configs with pairwise distinct UUIDs,
\* no Config combining mirror_of with an incompatible field, no mirror
\* chain and only in-range brightness, ValidConfigGroup::from succeeds,
\* the UUID set of the result has N elements and its map sends each UUID
\* to the Config given for it.
C13_WellFormedGroupValidates ==
    (FromDone /\ WellFormed(TheGroup)) =>
        /\ FromResult.tag = "Ok"
        /\ Cardinality(FromResult.value.uuids) = Len(TheGroup)
        /\ DOMAIN FromResult.value.configs = FromResult.value.uuids
        /\ \A i \in 1..Len(TheGroup) :
              FromResult.value.configs[TheGroup[i].uuid] = TheGroup[i]

\* C13 witness: a well-formed group of three Configs, one of them
\* mirroring another display of the group, has been validated.
C13_Witness ==
    /\ FromDone
    /\ WellFormed(TheGroup)
    /\ Len(TheGroup) = 3
    /\ \E i \in 1..3 : TheGroup[i].mirror_of # None
    /\ FromResult.tag = "Ok"

\* C14 as stated: for every ConfigGroup in which some UUID occurs more
\* than once, validation fails with DuplicateDisplays and the reported set
\* is exactly the set of the UUIDs that occur more than once, whatever
\* else the group contains.
C14_DuplicatesAlwaysReported ==
    (FromDone /\ Repeated(TheGroup) # {}) =>
        /\ FromResult.tag = "DuplicateDisplays"
        /\ FromResult.value = Repeated(TheGroup)

\* C14 amended: for every ConfigGroup in which some UUID occurs more than
\* once, validation fails with DuplicateDisplays and exactly the set of
\* the UUIDs that occur more than once, unless a Config of the group sets
\* mirror_of together with origin, extents, scaled, frequency, color_depth
\* or rotation; then it fails with InvalidMirrorConfig.
C14_DuplicatesReported ==
    (FromDone /\ Repeated(TheGroup) # {}) =>
        IF \E i \in 1..Len(TheGroup) : MirrorConflict(TheGroup[i])
        THEN FromResult.tag = "InvalidMirrorConfig"
        ELSE /\ FromResult.tag = "DuplicateDisplays"
             /\ FromResult.value = Repeated(TheGroup)

\* C14 witness: a group that holds one UUID twice next to a Config of
\* another display was rejected with DuplicateDisplays.
C14_Witness ==
    /\ FromDone
    /\ Len(TheGroup) = 3
    /\ Cardinality(Repeated(TheGroup)) = 1
    /\ \E i \in 1..3 : TheGroup[i].uuid \notin Repeated(TheGroup)
    /\ FromResult.tag = "DuplicateDisplays"

\* C15: validation fails with InvalidMirrorConfig naming the display
\* whenever a Config sets mirror_of together with origin, extents, scaled,
\* frequency, color_depth, rotation or brightness; hence in every validated
\* group a mirroring Config has only uuid, mirror_of and optionally
\* enabled set.
C15_MirrorConfigRejected ==
    FromDone =>
        /\ (\E i \in 1..Len(TheGroup) : MirrorsWithMore(TheGroup[i])) =>
              /\ FromResult.tag = "InvalidMirrorConfig"
              /\ \E i \in 1..Len(TheGroup) :
                    /\ MirrorsWithMore(TheGroup[i])
                    /\ FromResult.value = TheGroup[i].uuid
        /\ FromResult.tag = "Ok" =>
              \A u \in FromResult.value.uuids :
                  ~MirrorsWithMore(FromResult.value.configs[u])

\* C15 witness: the group of the one Config {uuid A, mirror_of B,
\* brightness 0.5} was validated and accepted.
C15_Witness ==
    /\ FromDone
    /\ TheGroup = <<[DefaultConfig("A") EXCEPT !.mirror_of = Some("B"),
                                               !.brightness = Some(5)]>>
    /\ FromResult.tag = "Ok"
    /\ FromResult.value.configs["A"].brightness = Some(5)

\* C16: validation rejects, with an invalid-brightness error identifying
\* the display, every group containing a Config whose brightness is set
\* outside [0.0, 1.0]; hence no validated group holds an out-of-range
\* brightness.
C16_BrightnessRangeChecked ==
    FromDone =>
        /\ (\E i \in 1..Len(TheGroup) : ~BrightnessInRange(TheGroup[i])) =>
              /\ FromResult.tag = "InvalidBrightness"
              /\ \E i \in 1..Len(TheGroup) :
                    /\ ~BrightnessInRange(TheGroup[i])
                    /\ FromResult.value = TheGroup[i].uuid
        /\ FromResult.tag = "Ok" =>
              \A u \in FromResult.value.uuids :
                  BrightnessInRange(FromResult.value.configs[u])

\* C16 witness: the group of the one Config {uuid A, brightness 1.1} was
\* validated and accepted with that brightness.
C16_Witness ==
    /\ FromDone
    /\ TheGroup = <<[DefaultConfig("A") EXCEPT !.brightness = Some(11)]>>
    /\ FromResult.tag = "Ok"
    /\ FromResult.value.configs["A"].brightness = Some(11)

\* The result is MirrorOfMirror(uuid, target) for a Config of cg that
\* mirrors the display `target` of cg, whose Config mirrors too.
ReportsChainOf(cg, result) ==
    /\ result.tag = "MirrorOfMirror"
    /\ \E i, j \in 1..Len(cg) :
          /\ MirrorChain(cg, i, j)
          /\ result.value = <<cg[i].uuid, cg[j].uuid>>

\* No display of the validated group g mirrors a display of g that is
\* itself mirroring.
ChainFree(g) ==
    \A u \in g.uuids :
        g.configs[u].mirror_of # None =>
            \A t \in g.uuids :
                g.configs[u].mirror_of = Some(t) => g.configs[t].mirror_of = None

\* C17 as stated: validation fails with MirrorOfMirror(uuid, target)
\* whenever a Config's mirror_of names a display of the same group whose
\* own Config also has mirror_of set; hence in every validated group no
\* display mirrors a display that is itself mirroring.
C17_ChainAlwaysReported ==
    FromDone =>
        /\ HasMirrorChain(TheGroup) => ReportsChainOf(TheGroup, FromResult)
        /\ FromResult.tag = "Ok" => ChainFree(FromResult.value)

\* C17 amended: whenever a Config's mirror_of names a display of the same
\* group whose own Config also has mirror_of set, validation fails, and it
\* fails with MirrorOfMirror(uuid, target) for such a pair unless some
\* Config of the group sets mirror_of together with origin, extents,
\* scaled, frequency, color_depth or rotation or some UUID occurs more
\* than once; hence in every validated group no display mirrors a display
\* that is itself mirroring.
C17_ChainReported ==
    FromDone =>
        /\ HasMirrorChain(TheGroup) =>
              /\ FromResult.tag # "Ok"
              /\ \/ \E i \in 1..Len(TheGroup) : MirrorConflict(TheGroup[i])
                 \/ Repeated(TheGroup) # {}
                 \/ ReportsChainOf(TheGroup, FromResult)
        /\ FromResult.tag = "Ok" => ChainFree(FromResult.value)

\* C17 witness: in a group of three displays A mirrors B and B mirrors C,
\* which does not mirror, and validation failed with MirrorOfMirror(A, B).
C17_Witness ==
    /\ FromDone
    /\ Len(TheGroup) = 3
    /\ \E i, j, k \in 1..3 :
          /\ TheGroup[i].uuid = "A" /\ TheGroup[i].mirror_of = Some("B")
          /\ TheGroup[j].uuid = "B" /\ TheGroup[j].mirror_of = Some("C")
          /\ TheGroup[k].uuid = "C" /\ TheGroup[k].mirror_of = None
    /\ FromResult.tag = "MirrorOfMirror"
    /\ FromResult.value = <<"A", "B">>

(***************************************************************************)
(* valid_config.rs: validate_config_groups.                                *)
(***************************************************************************)
\* The ConfigGroups of the model are lists of these groups: the empty
\* group, groups of one, two and three displays, two pairs of groups that
\* name the same displays in another order and with other field values, a
\* group that holds A twice and one whose Config fails the mirror test.
ListedGroups ==
    LET plain(u) == DefaultConfig(u)
        placed(u) == [DefaultConfig(u) EXCEPT !.origin = Some(<<1920, 0>>)]
    IN {<<>>,
        <<plain("A")>>, <<placed("A")>>, <<plain("B")>>, <<plain("C")>>,
        <<plain("A"), plain("B")>>, <<plain("B"), placed("A")>>,
        <<plain("A"), plain("B"), plain("C")>>,
        <<plain("A"), plain("A")>>,
        <<[DefaultConfig("A") EXCEPT !.mirror_of = Some("B"),
                                   !.origin = Some(<<1920, 0>>)]>>}

\* ConfigGroups: the Vec of its groups.
InputGroupLists == UNION {[1..n -> ListedGroups] : n \in 0..MaxGroups}

\* A comparison that orders incomparable groups by ascending size.
partial_cmp_Ascending(self, other) ==
    IF other.uuids \subseteq self.uuids /\ self.uuids \subseteq other.uuids
    THEN "Equal"
    ELSE IF other.uuids \subseteq self.uuids THEN "Less"
    ELSE IF self.uuids \subseteq other.uuids THEN "Greater"
    ELSE IF Cardinality(self.uuids) < Cardinality(other.uuids) THEN "Less"
    ELSE IF Cardinality(self.uuids) = Cardinality(other.uuids) THEN "Equal"
    ELSE "Greater"

\* lines 126-149: PartialOrd::partial_cmp of ValidConfigGroup.
partial_cmp(self, other) ==
    IF other.uuids \subseteq self.uuids /\ self.uuids \subseteq other.uuids
    THEN "Equal"
    ELSE IF other.uuids \subseteq self.uuids THEN "Less"
    ELSE IF self.uuids \subseteq other.uuids THEN "Greater"
    ELSE IF Cardinality(other.uuids) < Cardinality(self.uuids) THEN "Less"
    ELSE IF Cardinality(other.uuids) = Cardinality(self.uuids) THEN "Equal"
    ELSE "Greater"

\* PartialOrd::lt, the comparison slice::sort is given.
lt(self, other) == partial_cmp(self, other) = "Less"

\* One step of the stable sort: x goes before the first element of the
\* sorted list that it is less than.
RECURSIVE Insert(_, _)
Insert(sorted, x) ==
    IF sorted = <<>> THEN <<x>>
    ELSE IF lt(x, Head(sorted)) THEN <<x>> \o sorted
    ELSE <<Head(sorted)>> \o Insert(Tail(sorted), x)

\* line 439: vec_groups.sort(), a stable sort by lt.
RECURSIVE sort(_)
sort(vec_groups) ==
    IF vec_groups = <<>> THEN <<>>
    ELSE Insert(sort(SubSeq(vec_groups, 1, Len(vec_groups) - 1)),
                vec_groups[Len(vec_groups)])

\* A membership test of the HashSet that compares the whole groups.
contains_ByValue(set, g) == g \in set

\* HashSet::contains: ValidConfigGroups are equal when their uuids are.
contains(set, g) == \E h \in set : h.uuids = g.uuids

\* HashSet::insert: a set that holds an equal group is left as it is.
insert(set, g) == IF contains(set, g) THEN set ELSE set \cup {g}

\* lines 423-430: the loop over cgs.groups. acc holds `valid_groups`,
\* `duplicate_groups` and the errors `?` can return with, if any.
RECURSIVE ValidateLoop(_, _)
ValidateLoop(cgs, acc) ==
    IF cgs = <<>> THEN acc
    ELSE LET results == ValidConfigGroup_from(Head(cgs))
             valid_group == (CHOOSE r \in results : TRUE).value
         IN IF \E r \in results : r.tag # "Ok"
            THEN [acc EXCEPT !.errors = results]
            ELSE IF contains(acc.valid_groups, valid_group)
            THEN ValidateLoop(Tail(cgs),
                    [acc EXCEPT !.duplicate_groups = insert(@, valid_group)])
            ELSE ValidateLoop(Tail(cgs),
                    [acc EXCEPT !.valid_groups = insert(@, valid_group)])

\* validate_config_groups: the results it can return. valid_groups is a
\* HashSet, so the Vec collected from it on line 438 holds its groups in
\* any order before it is sorted.
validate_config_groups(cgs) ==
    LET r == ValidateLoop(cgs, [valid_groups |-> {}, duplicate_groups |-> {},
                                errors |-> {}])
    IN IF r.errors # {} THEN r.errors
       ELSE IF r.duplicate_groups # {}
       THEN {DuplicateGroups(r.duplicate_groups)}
       ELSE {ValidOk(sort(vec_groups)) :
                vec_groups \in IterationOrders(r.valid_groups)}

\* validate_config_groups(cgs) is called on a list of groups.
ValidateInit ==
    /\ input_groups \in InputGroupLists
    /\ valid_result = None
    /\ vpc = "validate"
    /\ PipelineIdle
    /\ TxnIdle
    /\ DaemonIdle
    /\ SelectIdle
    /\ ApplyIdle
    /\ IoIdle

Validate ==
    /\ vpc = "validate"
    /\ \E r \in validate_config_groups(input_groups) :
          valid_result' = Some(r)
    /\ vpc' = "validated"
    /\ UNCHANGED <<input_groups, pipeline_vars, txn_vars, daemon_vars,
                   select_vars, apply_vars, io_vars>>

ValidateNext == Validate

ValidateSpec == ValidateInit /\ [][ValidateNext]_vars

\* What validate_config_groups was called on and what it returned.
Validated == vpc = "validated"

ValidateResult == valid_result[1]

\* The displays the group cg names.
UUIDSet(cg) == {cg[i].uuid : i \in 1..Len(cg)}

\* Group i of the input is valid on its own.
ValidAlone(i) ==
    \A r \in ValidConfigGroup_from(input_groups[i]) : r.tag = "Ok"

AllValidAlone == \A i \in 1..Len(input_groups) : ValidAlone(i)

\* The UUID sets that more than one group of the input names.
RepeatedSets ==
    {UUIDSet(input_groups[i]) : i \in
        {k \in 1..Len(input_groups) :
            \E j \in 1..Len(input_groups) :
                j # k /\ UUIDSet(input_groups[j]) = UUIDSet(input_groups[k])}}

\* C18: when every group is valid on its own, validate_config_groups fails
\* with DuplicateGroups exactly when two input groups name the same set of
\* UUIDs, whatever the order of their Configs and their field values, and
\* the error holds exactly the UUID sets that occur more than once; on
\* success the returned groups have pairwise distinct UUID sets; an error
\* of a single group is reported in preference to DuplicateGroups.
C18_DuplicateGroups ==
    Validated =>
        /\ AllValidAlone =>
              /\ ValidateResult.tag = "DuplicateGroups" <=> RepeatedSets # {}
              /\ ValidateResult.tag \in {"DuplicateGroups", "Ok"}
        /\ (AllValidAlone /\ ValidateResult.tag = "DuplicateGroups") =>
              /\ {g.uuids : g \in ValidateResult.value} = RepeatedSets
              /\ Cardinality(ValidateResult.value) = Cardinality(RepeatedSets)
        /\ ValidateResult.tag = "Ok" =>
              \A i, j \in 1..Len(ValidateResult.value) :
                  i # j => ValidateResult.value[i].uuids
                              # ValidateResult.value[j].uuids
        /\ ~AllValidAlone =>
              ValidateResult.tag \notin {"DuplicateGroups", "Ok"}

\* C18 witness: three valid groups, of which two name {A, B} with their
\* Configs in another order and another origin for A, were rejected with
\* DuplicateGroups holding the one set {A, B}.
C18_Witness ==
    /\ Validated
    /\ Len(input_groups) = 3
    /\ AllValidAlone
    /\ \E i, j \in 1..3 :
          /\ input_groups[i] # input_groups[j]
          /\ input_groups[i][1].uuid = "A" /\ input_groups[j][1].uuid = "B"
          /\ UUIDSet(input_groups[i]) = {"A", "B"}
          /\ UUIDSet(input_groups[j]) = {"A", "B"}
    /\ \E k \in 1..3 : UUIDSet(input_groups[k]) = {"C"}
    /\ ValidateResult.tag = "DuplicateGroups"
    /\ {g.uuids : g \in ValidateResult.value} = {{"A", "B"}}

\* The validated form of a group cg with pairwise distinct UUIDs.
Converted(cg) ==
    [uuids |-> UUIDSet(cg),
     configs |-> [u \in UUIDSet(cg) |->
                     cg[CHOOSE i \in 1..Len(cg) : cg[i].uuid = u]]]

\* Sequence `result` holds the converted groups of `cgs`, each once.
PermutationOf(result, cgs) ==
    /\ Len(result) = Len(cgs)
    /\ \E p \in IterationOrders(1..Len(cgs)) :
          \A i \in 1..Len(cgs) : result[p[i]] = Converted(cgs[i])

\* The ordering that partial_cmp(b, a) must give when partial_cmp(a, b)
\* gives o.
Reverse(o) == IF o = "Less" THEN "Greater" ELSE IF o = "Greater" THEN "Less" ELSE o

\* The validated groups over the displays of the model.
AnyGroups == {ValidConfigGroup(S) : S \in (SUBSET UUIDs) \ {{}}}

\* C19: on success validate_config_groups returns a permutation of the
\* input groups in which the sizes of the UUID sets do not increase, so a
\* group comes before every group whose UUID set is a strict subset of its
\* own; the comparison used is a total preorder: reversing the arguments
\* reverses the result, and it is transitive.
C19_SortedByPrecision ==
    (Validated /\ ValidateResult.tag = "Ok") =>
        LET result == ValidateResult.value
        IN /\ PermutationOf(result, input_groups)
           /\ \A i, j \in 1..Len(result) :
                 i < j => Cardinality(result[i].uuids)
                             >= Cardinality(result[j].uuids)
           /\ \A i, j \in 1..Len(result) :
                 (result[j].uuids \subseteq result[i].uuids
                    /\ result[j].uuids # result[i].uuids) => i < j
           /\ \A a, b \in AnyGroups :
                 partial_cmp(b, a) = Reverse(partial_cmp(a, b))
           /\ \A a, b, c \in AnyGroups :
                 (partial_cmp(a, b) # "Greater" /\ partial_cmp(b, c) # "Greater")
                    => partial_cmp(a, c) # "Greater"

\* C19 witness: the groups {C}, {A, B} and {A, B, C}, given in this order,
\* were returned as {A, B, C}, {A, B}, {C}.
C19_Witness ==
    /\ Validated
    /\ Len(input_groups) = 3
    /\ UUIDSet(input_groups[1]) = {"C"}
    /\ UUIDSet(input_groups[2]) = {"A", "B"}
    /\ UUIDSet(input_groups[3]) = {"A", "B", "C"}
    /\ ValidateResult.tag = "Ok"
    /\ ValidateResult.value[1].uuids = {"A", "B", "C"}
    /\ ValidateResult.value[2].uuids = {"A", "B"}
    /\ ValidateResult.value[3].uuids = {"C"}

\* C20 as stated: validation of a ConfigGroup with no Configs always fails
\* with EmptyGroup, and validate_config_groups fails with that error if
\* any of its groups is empty.
C20_EmptyGroupAlwaysReported ==
    Validated =>
        \A i \in 1..Len(input_groups) :
            input_groups[i] = <<>> =>
                /\ \A r \in ValidConfigGroup_from(input_groups[i]) :
                      r.tag = "EmptyGroup"
                /\ ValidateResult.tag = "EmptyGroup"

\* C20 amended: validation of a ConfigGroup with no Configs always fails
\* with EmptyGroup, and validate_config_groups fails if any of its groups
\* is empty, with that error if every group before the first empty group
\* is valid on its own.
C20_EmptyGroupReported ==
    Validated =>
        \A i \in 1..Len(input_groups) :
            input_groups[i] = <<>> =>
                /\ \A r \in ValidConfigGroup_from(input_groups[i]) :
                      r.tag = "EmptyGroup"
                /\ ValidateResult.tag \notin {"Ok", "DuplicateGroups"}
                /\ (\A j \in 1..(i - 1) : ValidAlone(j)) =>
                      ValidateResult.tag = "EmptyGroup"

\* C20 witness: the list of two groups that both name {A}, followed by an
\* empty group, was rejected with EmptyGroup.
C20_Witness ==
    /\ Validated
    /\ Len(input_groups) = 3
    /\ UUIDSet(input_groups[1]) = {"A"} /\ ValidAlone(1)
    /\ UUIDSet(input_groups[2]) = {"A"} /\ ValidAlone(2)
    /\ input_groups[3] = <<>>
    /\ ValidateResult.tag = "EmptyGroup"

(***************************************************************************)
(* Further claims about the transactions.                                  *)
(***************************************************************************)
\* The rotations the open transaction holds for display u.
RotationsQueuedFor(u) ==
    SelectSeq(QueuedFor(u), LAMBDA e : e.kind = "SetRotation")

TxnOpen == txn.exists /\ ~txn.dropped

\* C21: within one open transaction, a second set_rotation for a display
\* that already has a rotation queued fails with DuplicateConfiguration
\* naming that display, leaves the rotation queued by the first call
\* unchanged and leaves the transaction open.
C21_SecondRotationRejected ==
    [][\A u \in UUIDs : \A rotation \in Rotations :
          (TxnOpen /\ RotationsQueuedFor(u) # <<>> /\ SetRotation(u, rotation)) =>
              /\ last' = [op |-> "set_rotation",
                          result |-> DuplicateConfiguration(u)]
              /\ RotationsQueuedFor(u)' = RotationsQueuedFor(u)
              /\ TxnOpen']_vars

\* C21 witness: the second set_rotation for display A on an open fake
\* transaction returned Ok and A has two rotations queued.
C21_Witness ==
    /\ backend = "fake"
    /\ TxnOpen
    /\ Len(RotationsQueuedFor("A")) = 2
    /\ last = [op |-> "set_rotation", result |-> Ok]

\* A step is an edit operation that names display u.
EditNaming(u) ==
    \/ \E mode \in ModesOf(u) : SetMode(u, mode)
    \/ \E rotation \in Rotations : SetRotation(u, rotation)
    \/ \E point \in Origins : SetOrigin(u, point)
    \/ \E enabled \in BOOLEAN : SetEnabled(u, enabled)
    \/ \E mirror \in MirrorTargets : SetMirroring(u, mirror)
    \/ \E brightness \in Brightnesses : SetBrightness(u, brightness)

\* A step is set_brightness for display u with a brightness outside
\* [0.0, 1.0].
BrightnessOutOfRangeFor(u) ==
    \E brightness \in Brightnesses :
        (brightness < 0 \/ brightness > 10) /\ SetBrightness(u, brightness)

\* The transaction is open and display u is not in the snapshot it was
\* opened on.
UnknownToOpenTxn(u) == TxnOpen /\ u \notin DOMAIN display_state

\* Nothing was queued, nothing was sent to the backend and the transaction
\* is still open.
NothingQueued ==
    /\ txn' = txn
    /\ session' = session
    /\ displays' = displays
    /\ TxnOpen'

\* C22 as stated: every edit operation on an open transaction that names a
\* UUID which is not in the display snapshot the transaction was opened on
\* fails with UnknownUUID naming that UUID, queues nothing, sends nothing
\* to the backend and leaves the transaction open.
C22_UnknownUUIDAlways ==
    [][\A u \in UUIDs :
          (UnknownToOpenTxn(u) /\ EditNaming(u)) =>
              /\ last'.result = UnknownUUID(u)
              /\ NothingQueued]_vars

\* C22 amended: every edit operation on an open transaction that names a
\* UUID which is not in the display snapshot the transaction was opened on
\* fails, queues nothing, sends nothing to the backend and leaves the
\* transaction open; it fails with UnknownUUID naming that UUID, except
\* set_brightness with a brightness outside [0.0, 1.0], which fails with
\* InvalidBrightness.
C22_UnknownUUID ==
    [][\A u \in UUIDs :
          (UnknownToOpenTxn(u) /\ EditNaming(u)) =>
              /\ last'.result = IF BrightnessOutOfRangeFor(u)
                                 THEN InvalidBrightness
                                 ELSE UnknownUUID(u)
              /\ NothingQueued]_vars

\* C22 witness: an open real transaction that holds an edit handed to Core
\* Graphics was asked for an edit of display C, which its snapshot does
\* not hold, and answered UnknownUUID(C).
C22_Witness ==
    /\ backend = "real"
    /\ TxnOpen
    /\ "C" \notin DOMAIN display_state
    /\ Len(session.queued) > 0
    /\ last.result = UnknownUUID("C")

(***************************************************************************)
(* knoll.rs: pipeline_command run with no input and then with what it     *)
(* printed, on the fake backend.                                           *)
(***************************************************************************)
\* The states of display u in the system: as it starts, mirroring
\* another display, moved, rotated, in its scaled mode and with a
\* brightness, or disabled.
RoundDisplayStates(u) ==
    {Display(u, TRUE),
     [Display(u, TRUE) EXCEPT !.mirrored_display = Some(MirrorTarget(u))],
     [Display(u, TRUE) EXCEPT !.origin = <<1920, 0>>, !.rotation = 90,
                              !.mode = DisplayMode(u, TRUE, <<1280, 720>>),
                              !.brightness = Some(5)],
     Display(u, FALSE)}

\* The displays of the system: any of A, B and C, or none.
RoundDisplays ==
    LET Maps == UNION {[S -> UNION {RoundDisplayStates(u) : u \in S}] :
                          S \in SUBSET UUIDs}
    IN {m \in Maps : \A u \in DOMAIN m : m[u].uuid = u}

\* The Config state_to_config builds for one display (lines 680-703).
display_to_config(display) ==
    IF display.mirrored_display # None
    THEN [DefaultConfig(display.uuid) EXCEPT
             !.mirror_of = display.mirrored_display]
    ELSE [DefaultConfig(display.uuid) EXCEPT
             !.enabled = Some(display.enabled),
             !.origin = Some(display.origin),
             !.extents = Some(display.mode.extents),
             !.scaled = Some(display.mode.scaled),
             !.frequency = Some(display.mode.frequency),
             !.color_depth = Some(display.mode.color_depth),
             !.rotation = Some(display.rotation),
             !.brightness = display.brightness]

\* state_to_config: one group with a Config per display of the snapshot, in
\* the order of the BTreeMap.
state_to_config(snapshot) ==
    LET keys == SortedKeys(DOMAIN snapshot)
    IN <<[i \in 1..Len(keys) |-> display_to_config(snapshot[keys[i]])]>>

\* The fields of Config in the order of the struct.
ConfigFields ==
    <<"mirror_of", "enabled", "origin", "extents", "scaled", "frequency",
      "color_depth", "rotation", "brightness">>

\* Serialize for Config: the uuid, then a name and a bare value for every
\* field that is set (skip_serializing_if = "Option::is_none",
\* serialize_opt).
RECURSIVE SerializeFields(_, _)
SerializeFields(c, fields) ==
    IF fields = <<>> THEN <<>>
    ELSE (IF c[Head(fields)] = None THEN <<>>
          ELSE <<<<Head(fields), c[Head(fields)][1]>>>>)
         \o SerializeFields(c, Tail(fields))

SerializeConfig(c) == <<<<"uuid", c.uuid>>>> \o SerializeFields(c, ConfigFields)

\* serde::serialize of ConfigGroups: both wrappers are transparent.
serialize(cgs) ==
    [g \in 1..Len(cgs) |-> [i \in 1..Len(cgs[g]) |-> SerializeConfig(cgs[g][i])]]

\* Deserialize for Config: a field that is present is wrapped in Some
\* (deserialize_opt), one that is absent takes its default.
DeserializeConfig(text) ==
    LET value(f) == text[CHOOSE k \in 1..Len(text) : text[k][1] = f][2]
        present(f) == \E k \in 1..Len(text) : text[k][1] = f
    IN [f \in {"uuid"} \cup {ConfigFields[k] : k \in 1..Len(ConfigFields)} |->
           IF f = "uuid" THEN value(f)
           ELSE IF present(f) THEN Some(value(f)) ELSE None]

deserialize(text) ==
    [g \in 1..Len(text) |->
        [i \in 1..Len(text[g]) |-> DeserializeConfig(text[g][i])]]

\* pipeline_command is about to run with an empty input.
RoundInit ==
    /\ backend = "fake"
    /\ displays \in RoundDisplays
    /\ display_state = EmptyMap
    /\ txn = NoTxn
    /\ session = NoSession
    /\ last = NoCall
    /\ closed_by = "none"
    /\ vcgs = <<>>
    /\ attached = {}
    /\ resolution = NoResolution
    /\ chosen_config = NoGroup
    /\ ppc = "first"
    /\ IoIdle
    /\ DaemonIdle
    /\ SelectIdle
    /\ ApplyIdle
    /\ ValidIdle

\* The first run: DS::current(), groups() returns no group for the empty
\* input, and the display state is written to the output.
PipelineEmpty ==
    /\ ppc = "first"
    /\ display_state' = Current(displays)
    /\ output' = <<serialize(state_to_config(display_state'))>>
    /\ ppc' = "second"
    /\ UNCHANGED <<vcgs, attached, resolution, chosen_config, backend,
                   displays, txn, session, last, closed_by, daemon_vars,
                   select_vars, apply_vars, valid_vars, seen>>

\* The second run up to line 725: DS::current() and config_reader.groups()
\* on the output of the first run.
ReadGroups ==
    /\ ppc = "second"
    /\ display_state' = Current(displays)
    /\ attached' = DOMAIN display_state'
    /\ input_groups' = deserialize(output[1])
    /\ \E r \in validate_config_groups(input_groups') :
          /\ valid_result' = Some(r)
          /\ IF r.tag = "Ok"
             THEN /\ vcgs' = r.value
                  /\ ppc' = IF r.value = <<>> THEN "print" ELSE "resolve"
             ELSE /\ vcgs' = vcgs
                  /\ ppc' = "failed"
    /\ vpc' = "validated"
    /\ UNCHANGED <<resolution, chosen_config, backend, displays, txn, session,
                   last, closed_by, daemon_vars, select_vars, apply_vars,
                   io_vars>>

\* lines 726-727: the group is resolved and handed to configure_displays.
RoundResolve ==
    /\ ppc = "resolve"
    /\ resolution' = find_most_precise_config_group(vcgs, attached)
    /\ IF resolution'.tag = "Ok"
       THEN /\ chosen_config' = resolution'.group
            /\ apc' = "select"
            /\ ppc' = "configure"
       ELSE /\ ppc' = "failed"
            /\ UNCHANGED <<chosen_config, apc>>
    /\ UNCHANGED <<vcgs, attached, txn_vars, daemon_vars, select_vars,
                   selected_modes, pending, apply_result, valid_vars, io_vars>>

\* lines 727-738: configure_displays has returned; on Ok the display state
\* is read again and written to the output.
RoundPrint ==
    /\ ppc \in {"configure", "print"}
    /\ ppc = "configure" => apc = "done"
    /\ IF ppc = "print" \/ apply_result = Ok
       THEN /\ display_state' = Current(displays)
            /\ output' = Append(output, serialize(state_to_config(display_state')))
            /\ ppc' = "done"
       ELSE /\ ppc' = "failed"
            /\ UNCHANGED <<display_state, output>>
    /\ UNCHANGED <<vcgs, attached, resolution, chosen_config, backend,
                   displays, txn, session, last, closed_by, daemon_vars,
                   select_vars, apply_vars, valid_vars, seen>>

RoundNext ==
    \/ PipelineEmpty
    \/ ReadGroups
    \/ RoundResolve
    \/ SelectModes
    \/ ApplyConfigure
    \/ IssueEdit
    \/ ApplyCommit
    \/ RoundPrint

RoundSpec == RoundInit /\ [][RoundNext]_vars

\* The second run has come to its end without an error.
RoundDone == ppc = "done" /\ Len(output) = 2

\* Some display of the snapshot mirrors a display that is itself mirroring.
SnapshotHasMirrorChain(snapshot) ==
    \E u \in DOMAIN snapshot :
        /\ snapshot[u].mirrored_display # None
        /\ snapshot[u].mirrored_display[1] \in DOMAIN snapshot
        /\ snapshot[snapshot[u].mirrored_display[1]].mirrored_display # None

\* What the round trip leaves as it was: the displays of the backend on
\* every step, no transaction for the empty input, and at the end a
\* committed transaction and a second output equal to the first.
RoundTripKeeps ==
    /\ [](ppc = "second" => txn = NoTxn /\ closed_by = "none")
    /\ [](RoundDone => /\ valid_result[1].tag = "Ok"
                       /\ resolution.tag = "Ok"
                       /\ apply_result = Ok
                       /\ closed_by = "commit"
                       /\ output[2] = output[1])
    /\ [][displays' = displays]_vars

\* C23: as the claim states it, for every display state: the output of a
\* run with no input, fed back with no hardware change, passes validation,
\* resolution and mode selection, a transaction is committed, every display
\* is afterwards as it was and the output is printed again identical; the
\* run with the empty input opens no transaction.
C23_RoundTripAlways ==
    /\ RoundTripKeeps
    /\ [](ppc # "failed")

\* C23, the part of it that holds: the round trip fails only for a snapshot
\* with no display or with a display mirroring a display that is itself
\* mirroring; for every other display state it is as the claim says.
C23_RoundTrip ==
    /\ RoundTripKeeps
    /\ [](ppc = "failed" => \/ DOMAIN display_state = {}
                            \/ SnapshotHasMirrorChain(display_state))

\* C23: the round trip has ended for three displays, one of them mirroring
\* and one rotated, with a committed transaction and the same output twice.
C23_Witness ==
    /\ RoundDone
    /\ closed_by = "commit"
    /\ output[2] = output[1]
    /\ DOMAIN display_state = UUIDs
    /\ \E u \in UUIDs : display_state[u].mirrored_display # None
    /\ \E u \in UUIDs : display_state[u].rotation = 90

(***************************************************************************)
(* Further claims about configure_displays.                                *)
(***************************************************************************)
\* An edit of the transaction configure_displays opened has failed.
EditFailed == apc = "done" /\ closed_by = "drop"

\* C24: when an edit issued while a group is applied fails, that step ends
\* configure_displays with the error of the edit, nothing of the edit is
\* queued, the transaction is dropped without a commit, the displays are as
\* they were; and no edit and no commit follows.
C24_FailedEditAborts ==
    /\ [][(apc = "edits" /\ last'.result # Ok) =>
              /\ apc' = "done"
              /\ apply_result' = last'.result
              /\ closed_by' = "drop"
              /\ txn'.dropped
              /\ txn'.edit_map = txn.edit_map
              /\ pending' = pending
              /\ displays' = displays]_vars
    /\ [][EditFailed => UNCHANGED <<txn, displays, last, closed_by>>]_vars
    /\ [](EditFailed => /\ ~ENABLED ApplyNext
                        /\ last.op \notin {"commit", "configure"}
                        /\ apply_result # Ok
                        /\ Current(displays) = display_state)

\* C24: set_brightness(B, 1.1) has failed after the edits of A were queued,
\* with the edits of B after it never issued.
C24_Witness ==
    /\ EditFailed
    /\ last.op = "set_brightness"
    /\ apply_result = InvalidBrightness
    /\ Len(pending) > 1
    /\ txn.edit_map["A"] # <<>>

\* The edit of one kind, if the option is set.
EditIfSet(kind, opt) == IF opt = None THEN <<>> ELSE <<[kind |-> kind, value |-> opt[1]]>>

\* The edits the claim expects for display u of the group, in their order.
ExpectedEdits(u) ==
    LET c == chosen_config.configs[u]
        disable == <<[kind |-> "SetEnabled", value |-> FALSE]>>
    IN IF c.mirror_of # None
       THEN <<[kind |-> "SetMirroredDisplay", value |-> c.mirror_of]>>
            \o (IF c.enabled = Some(FALSE) THEN disable ELSE <<>>)
       ELSE IF c.enabled = Some(FALSE) THEN disable
       ELSE <<[kind |-> "SetMirroredDisplay", value |-> None]>>
            \o EditIfSet("SetRotation", c.rotation)
            \o EditIfSet("SetBrightness", c.brightness)
            \o <<[kind |-> "SetMode", value |-> selected_modes[u]]>>
            \o EditIfSet("SetOrigin", c.origin)

\* s is the beginning of t, compared kind first.
StartsWith(t, s) ==
    /\ Len(s) <= Len(t)
    /\ \A i \in 1..Len(s) : s[i].kind = t[i].kind /\ s[i].value = t[i].value

\* The edits issued so far for u are the beginning of the expected ones.
IssuedInOrder(u) == StartsWith(ExpectedEdits(u), txn.edit_map[u])

\* All the expected edits of u were issued.
AllIssued(u) == Len(txn.edit_map[u]) = Len(ExpectedEdits(u))

NotMirroring == {u \in chosen_config.uuids : chosen_config.configs[u].mirror_of = None}

\* A mode selection of configure_displays has failed.
SelectionFailed == apc = "done" /\ closed_by = "none"

\* C26: a transaction is opened only after a mode was selected for exactly
\* the displays of the group whose Config has no mirror_of, each mode one of
\* the display's own that select_mode returns for the Config; when a
\* selection fails, configure_displays returns its error with no transaction
\* ever opened, no edit issued and the displays as they were.
C26_ModesBeforeTransaction ==
    /\ [](txn # NoTxn =>
             /\ DOMAIN selected_modes = NotMirroring
             /\ \A u \in NotMirroring :
                   LET r == select_mode(PossibleModes(u), u, chosen_config.configs[u])
                   IN r.tag = "Ok" /\ selected_modes[u] = r.mode[1])
    /\ [][apc = "select" /\ apc' = "done" =>
             /\ apply_result'[1] \in {"NoMatchingDisplayMode", "AmbiguousDisplayMode"}
             /\ \E u \in NotMirroring :
                   select_mode(PossibleModes(u), u, chosen_config.configs[u]).tag
                      = apply_result'[1]]_vars
    /\ [](SelectionFailed => /\ txn = NoTxn
                             /\ last = NoCall
                             /\ Current(displays) = display_state
                             /\ ~ENABLED ApplyNext)
    /\ [][apc = "select" => displays' = displays /\ txn' = NoTxn]_vars

\* C26: a transaction is open for a group in which B mirrors A: a mode was
\* selected for A and none for B.
C26_Witness ==
    /\ txn # NoTxn
    /\ chosen_config.uuids = {"A", "B"}
    /\ chosen_config.configs["B"].mirror_of = Some("A")
    /\ DOMAIN selected_modes = {"A"}

\* C26: the selection for a display of a group of two has failed with no
\* transaction opened.
C26_FailedWitness ==
    /\ SelectionFailed
    /\ chosen_config.uuids = {"A", "B"}
    /\ apply_result[1] = "NoMatchingDisplayMode"
    /\ txn = NoTxn

\* The attached displays the chosen group does not name.
Unmanaged == DOMAIN displays \ chosen_config.uuids

\* C27: no edit is ever issued or queued for a display the chosen group does
\* not name, and a commit that succeeds leaves every such attached display
\* with the enabled flag, origin, rotation, mode, mirroring and brightness
\* it had before (no step before the commit changes any display).
C27_UnnamedDisplaysUntouched ==
    /\ [](txn # NoTxn => \A u \in DOMAIN txn.edit_map \ chosen_config.uuids :
                             txn.edit_map[u] = <<>>)
    /\ [](\A i \in 1..Len(pending) : pending[i].uuid \in chosen_config.uuids)
    /\ [][closed_by' = "commit" /\ apply_result' = Ok =>
             \A u \in Unmanaged :
                 /\ u \in DOMAIN displays'
                 /\ \A f \in {"enabled", "origin", "rotation", "mode",
                              "mirrored_display", "brightness"} :
                        displays'[u][f] = displays[u][f]]_vars
    /\ [][closed_by' # "commit" => displays' = displays]_vars

\* C27: a group that names A alone was committed with success while B was
\* attached and mirroring A: A is rotated now and B mirrors A as before.
C27_Witness ==
    /\ closed_by = "commit"
    /\ apply_result = Ok
    /\ chosen_config.uuids = {"A"}
    /\ display_state["B"].mirrored_display = Some("A")
    /\ displays["B"] = display_state["B"]
    /\ displays["A"].rotation = 90
    /\ display_state["A"].rotation # 90

(***************************************************************************)
(* Further claims about the Core Graphics session of a real transaction.   *)
(***************************************************************************)
\* The calls that were handed the CGDisplayConfigRef obtained at begin.
RefCalls == SelectSeq(session.calls, LAMBDA c : c[2] = "ref")

\* C28: for a transaction of the real backend, the CGDisplayConfigRef
\* obtained at begin is with the transaction and was handed to no call while
\* the transaction is Open; once commit, cancel or drop has ended it, the
\* reference was handed to exactly one call, complete for a commit and
\* cancel for a cancel or a drop, whether that call succeeded or failed, and
\* the transaction holds null; whatever Drop calls afterwards gets null.
C28_SessionHandedOnce ==
    backend = "real" =>
        /\ Len(RefCalls) <= 1
        /\ ~txn.exists => session.calls = <<>>
        /\ (txn.exists /\ ~txn.dropped) =>
              /\ txn.config_ref = "ref"
              /\ session.calls = <<>>
        /\ (txn.exists /\ txn.dropped) =>
              /\ txn.config_ref = "null"
              /\ Len(RefCalls) = 1
              /\ session.calls[1] = RefCalls[1]
              /\ RefCalls[1][1] = (IF closed_by = "commit" THEN "complete" ELSE "cancel")
              /\ closed_by \in {"commit", "cancel", "drop"}
              /\ \A i \in 2..Len(session.calls) : session.calls[i][2] = "null"

\* C28: the completion of a commit has failed: the reference went to
\* complete, and the cancel of Drop that followed was handed null.
C28_Witness ==
    /\ backend = "real"
    /\ closed_by = "commit"
    /\ last.result = Internal
    /\ session.calls = <<CGCall("complete", "ref"), CGCall("cancel", "null")>>

(***************************************************************************)
(* Further claims about the daemon.                                        *)
(***************************************************************************)
\* The results of a pass that ended before DS::current() returned a
\* snapshot.
NoSnapshotErrors == {Err("Config"), Err("NoConfigGroups"), Err("Displays")}

\* C29: as the claim states it: every invocation of the callback is
\* eventually followed by a snapshot the worker takes after it.
C29_EveryNotificationSeen ==
    \A k \in 1..MaxNotifications : (notifications = k) ~> (seen >= k)

\* C29, amended: an invocation of the callback that finds the lock free
\* finds the worker outside a pass, and is eventually followed by the end of
\* a pass that as a whole comes after it, with the snapshot of that pass, if
\* the pass got as far as one, taken after the invocation.
C29_AcceptedNotificationSeen ==
    /\ [](mpc = "callback_held" => wpc \in {"lock", "waiting", "woken"})
    /\ \A k \in 1..MaxNotifications : \A c \in 0..MaxNotifications :
          (mpc = "callback_held" /\ notifications = k /\ count = c)
             ~> (count > c /\ (seen >= k \/ pass_result \in NoSnapshotErrors))

\* C29: both invocations of the callback were accepted and the last pass,
\* which has ended with success, took its snapshot after the second.
C29_Witness ==
    /\ notifications = MaxNotifications
    /\ seen = notifications
    /\ pass_result = Ok
    /\ count >= 2
    /\ wpc = "lock"

(***************************************************************************)
(* A display disabled by a committed transaction, and what comes after:    *)
(* a new snapshot, a resolution or a transaction on it.                    *)
(***************************************************************************)
\* The ConfigGroups resolved after the commit.
LaterConfigs ==
    {<<ValidConfigGroup({"A"})>>,
     <<ValidConfigGroup({"B"})>>,
     <<ValidConfigGroup({"A", "B"})>>,
     <<ValidConfigGroup({"A"}), ValidConfigGroup({"A", "B"})>>}

\* A and B are attached and enabled, and a snapshot was taken.
DisableInit ==
    /\ backend \in {"fake", "real"}
    /\ displays = [u \in {"A", "B"} |-> Display(u, TRUE)]
    /\ display_state = Current(displays)
    /\ txn = NoTxn
    /\ session = NoSession
    /\ last = NoCall
    /\ closed_by = "none"
    /\ vcgs = <<>>
    /\ attached = {}
    /\ resolution = NoResolution
    /\ chosen_config = NoGroup
    /\ ppc = "first"
    /\ DaemonIdle
    /\ ExtIdle

\* The first transaction: set_enabled(uuid, false).
Disable(uuid) ==
    /\ ppc = "first"
    /\ SetEnabled(uuid, FALSE)

\* The first transaction has been committed and is gone; DS::current() is
\* called again (pipeline_command line 729, the next pass of the daemon).
NextSnapshot ==
    /\ ppc = "first"
    /\ closed_by = "commit"
    /\ last = [op |-> "commit", result |-> Ok]
    /\ display_state' = Current(displays)
    /\ txn' = NoTxn
    /\ session' = NoSession
    /\ last' = NoCall
    /\ closed_by' = "none"
    /\ ppc' = "later"
    /\ UNCHANGED <<backend, displays, vcgs, attached, resolution, chosen_config,
                   daemon_vars, ext_vars>>

\* find_most_precise_config_group on the new snapshot.
LaterResolve ==
    /\ ppc = "later"
    /\ ~txn.exists
    /\ \E config_groups \in LaterConfigs :
          /\ vcgs' = config_groups
          /\ attached' = DOMAIN display_state
          /\ resolution' = find_most_precise_config_group(config_groups, attached')
    /\ ppc' = "resolved"
    /\ UNCHANGED <<chosen_config, txn_vars, daemon_vars, ext_vars>>

\* An edit of a transaction opened on the new snapshot.
LaterEdit ==
    /\ ppc = "later"
    /\ \/ \E u \in UUIDs : \E mode \in ModesOf(u) : SetMode(u, mode)
       \/ \E u \in UUIDs : \E rotation \in Rotations : SetRotation(u, rotation)
       \/ \E u \in UUIDs : \E point \in Origins : SetOrigin(u, point)
       \/ \E u \in UUIDs : \E enabled \in BOOLEAN : SetEnabled(u, enabled)
       \/ \E u \in UUIDs : \E mirror \in MirrorTargets : SetMirroring(u, mirror)
       \/ \E u \in UUIDs : \E brightness \in Brightnesses : SetBrightness(u, brightness)

DisableNext ==
    \/ Begin
    \/ \E u \in UUIDs : Disable(u)
    \/ Commit
    \/ NextSnapshot
    \/ LaterResolve
    \/ LaterEdit

DisableSpec == DisableInit /\ [][DisableNext]_vars

\* The displays a committed transaction has disabled (all start enabled).
Disabled == {u \in DOMAIN displays : ~displays[u].enabled}

\* The snapshot at hand was taken after the last commit.
Later == ppc \in {"later", "resolved"} /\ closed_by # "commit"

\* Every group of the list names display u.
AllGroupsName(u) == \A i \in 1..Len(vcgs) : u \in vcgs[i].uuids

\* What C30 says apart from the error of a later edit: a disabled display
\* is in no later snapshot, no resolution on such a snapshot chooses a group
\* that names it, a list whose groups all name it has no matching group,
\* and no step enables it again.
DisabledStaysAbsent ==
    /\ [](Later => \A u \in Disabled : u \notin DOMAIN display_state)
    /\ [](ppc = "resolved" =>
            \A u \in Disabled :
               /\ resolution.tag = "Ok" => u \notin resolution.group.uuids
               /\ AllGroupsName(u) => resolution.tag = "NoMatchingConfigGroup")
    /\ [][\A u \in Disabled : u \in DOMAIN displays' /\ ~displays'[u].enabled]_vars

\* C30 as stated: DisabledStaysAbsent, and every edit of a later open
\* transaction that names the disabled display fails with UnknownUUID and
\* changes nothing.
C30_DisabledDisplayGoneAlways ==
    /\ DisabledStaysAbsent
    /\ [][\A u \in Disabled :
            (ppc = "later" /\ TxnOpen /\ EditNaming(u)) =>
                /\ last'.result = UnknownUUID(u)
                /\ NothingQueued]_vars

\* C30 amended: DisabledStaysAbsent, and every edit of a later open
\* transaction that names the disabled display fails and changes nothing,
\* set_enabled(uuid, true) included; the error is UnknownUUID, except for
\* set_brightness with a brightness outside [0.0, 1.0], which fails with
\* InvalidBrightness.
C30_DisabledDisplayGone ==
    /\ DisabledStaysAbsent
    /\ [][\A u \in Disabled :
            (ppc = "later" /\ TxnOpen /\ EditNaming(u)) =>
                /\ last'.result = IF BrightnessOutOfRangeFor(u)
                                   THEN InvalidBrightness
                                   ELSE UnknownUUID(u)
                /\ NothingQueued]_vars

\* C30: a committed transaction has disabled B; a transaction opened on the
\* snapshot taken afterwards, which holds A alone, has queued an edit of A
\* and answered UnknownUUID(B) to set_enabled for B.
C30_Witness ==
    /\ ppc = "later"
    /\ Disabled = {"B"}
    /\ DOMAIN display_state = {"A"}
    /\ TxnOpen
    /\ EditCount > 0
    /\ last = [op |-> "set_enabled", result |-> UnknownUUID("B")]

\* C30: both groups of the list resolved after B was disabled name A, one
\* of them names B too, and the group of A alone was chosen.
C30_ResolvedWitness ==
    /\ ppc = "resolved"
    /\ Disabled = {"B"}
    /\ Len(vcgs) = 2
    /\ resolution.tag = "Ok"
    /\ resolution.group.uuids = {"A"}

=============================================================================
